---- MODULE Spec2Model ----
(***************************************************************************)
(* Environment lifecycle of ComfyDock: the record store                    *)
(* (utils/environment_manager.py), the provisioning pipeline               *)
(* (utils/docker_utils.py) and the request handlers (app.py), run against  *)
(* a container engine whose state can also change out of band.             *)
(*                                                                         *)
(* A handler is one action.  Where app.py calls a helper whose name and    *)
(* signature also exist in utils/ (load_environments,                      *)
(* save_environment_to_db, copy_directories_to_container) the utils/       *)
(* revision is the one modelled.  Of app.py's create_mounts(env) the        *)
(* handlers use the JSON check; the mount resolver itself is the           *)
(* create_mounts(mount_config, comfyui_path) of utils/docker_utils.py.     *)
(*                                                                         *)
(* SpecLock, SpecConcurrent, SpecActivates, SpecDuplicates and SpecStores  *)
(* serve several requests at once: there a request is a task that takes    *)
(* the lock, reads or writes the file and calls the engine in separate     *)
(* steps.  SpecStores also runs the store functions of app.py itself,      *)
(* which open the file without the lock.  SpecPipeline, SpecInstall and    *)
(* SpecArchive run the provisioning pipeline and its parts on their own.   *)
(***************************************************************************)
EXTENDS Integers, Sequences, FiniteSets, TLC

\* ------------------------------------------------------------------ bounds
MaxEnvs == 2          \* containers the engine ever creates for the store
MaxImages == 2        \* images ever committed by duplicate
MaxDeletedLimit == 2  \* largest retention limit passed to prune
MaxSteps == 5         \* requests and out-of-band events in a run
MaxPruneRecords == 3  \* records in a store handed to prune on its own
MaxStamp == 1         \* largest metadata.deleted_at in such a store
MaxPrunes == 2        \* calls of prune on such a store
MaxLegacyKeys == 2    \* directory keys of a legacy mount spec
MaxProvisions == 2    \* calls of the resolver and the pipeline on their own
MaxTasks == 2         \* requests that are served at the same time
MaxManifestLen == 4   \* characters of a requirements.txt

\* --------------------------------------------------------------- constants
SIGNAL_TIMEOUT == 2
COMFYUI_PORT == 8188
MaxNameLen == 128
STOP_OTHER_RUNNING_CONTAINERS == TRUE

Ids == 1..MaxEnvs
\* the ids the engine hands out: duplicate may take one more than create
ContainerIds == 1..(MaxEnvs + 1)
ImageIds == 1..MaxImages

GoodNames == {"env-a", "env-b"}
BadNames == {"!bad"}
Names == GoodNames \cup BadNames

\* container states the engine reports; "absent" marks a container id the
\* engine does not (or no longer) know
ContainerStatuses == {"created", "running", "paused", "exited", "dead"}
Absent == "absent"

\* image references: the shared base image and the two tags duplicate uses
BaseImage == "comfyui-env:base"
latest_tag == "comfy-environment-clone:latest"
temp_tag == "comfy-environment-clone:temp"
Tags == {latest_tag, temp_tag}

\* paths are sequences of components; an absolute path starts with "/"
CONTAINER_COMFYUI_PATH == <<"/", "app", "ComfyUI">>
ComfyuiPath == <<"/", "comfy">>
IsAbsolute(p) == Len(p) > 0 /\ p[1] = "/"
Join(base, p) == IF IsAbsolute(p) THEN p ELSE base \o p
\* Path.resolve(): a relative path is taken from the working directory
Cwd == <<"/", "srv">>
resolve(p) == IF IsAbsolute(p) THEN p ELSE Cwd \o p
HostDirs == {ComfyuiPath \o <<"custom_nodes">>, ComfyuiPath \o <<"models">>}
\* the directory the user is seen to create and remove
UserDirs == {ComfyuiPath \o <<"custom_nodes">>}

VARIABLES
    db,          \* environments.json: the list of records
    containers,  \* engine: container id -> status, or Absent
    images,      \* engine: tag -> image id, 0 when the tag does not exist
    fs,          \* host directories that exist
    nextId,      \* next container id the engine hands out
    nextImage,   \* next image id a commit produces
    clock,       \* time source for metadata.deleted_at
    last,        \* what the last handler did and returned
    steps,       \* requests and out-of-band events so far
    lock,        \* holder of environments.json.lock, 0 when it is free
    tasks        \* the requests in flight: position and local variables

vars == <<db, containers, images, fs, nextId, nextImage, clock, last, steps, lock, tasks>>

\* ------------------------------------------------------- requests in flight
Tasks == 1..MaxTasks
\* another process that takes environments.json.lock
ExternalHolder == MaxTasks + 1
\* envs: the list the request holds in memory; wrote: it has written the file;
\* new_image: the image its commit returned; image: the image the engine
\* resolved the tag to when it created the request's container;
\* provisioned: it ran copy_directories_to_container; restarts: its calls of
\* restart_container
Idle == [op |-> "", pc |-> "idle", arg |-> 0, envs |-> <<>>, result |-> "", wrote |-> FALSE,
         new_image |-> 0, image |-> 0, provisioned |-> FALSE, restarts |-> 0]
NoTasks == lock = 0 /\ tasks = [t \in Tasks |-> Idle]

\* ------------------------------------------------------------ engine faults
\* One engine call of a handler may be answered with an API error.
FaultOps == {"load_get", "get", "stop", "start", "restart", "remove",
             "create", "commit", "image_get", "image_remove", "install",
             "put_archive",
             "unavailable"}
NoFault == [op |-> "none", id |-> 0]
Faults == {NoFault} \cup [op : FaultOps, id : 0..MaxEnvs]
\* the faults that can hit the engine calls ops on the containers ids
FaultsOf(ops, ids) == {NoFault} \cup [op : ops, id : ids]
Fails(fault, op, id) == fault = [op |-> op, id |-> id]

\* ------------------------------------------------------------ mount configs
\* options["mount_config"] is a JSON string; json.loads turns it into either
\* the legacy key -> action map or the {"mounts": [...]} rule list.
MountConfigStrings == {"old_cn_mount", "new_cn_copy", "new_models_copy"}
InvalidJson == "{not json"

OldItem(key, action) == [key |-> key, action |-> action]
NewRule(cpath, hpath, type, ro) ==
    [container_path |-> cpath, host_path |-> hpath, type |-> type, read_only |-> ro]

json_loads(s) ==
    CASE s = "old_cn_mount" ->
            [style |-> "old", items |-> <<OldItem("models", "copy"), OldItem("custom_nodes", "mount")>>,
             mounts |-> <<>>]
      [] s = "new_cn_copy" ->
            [style |-> "new", items |-> <<>>,
             mounts |-> <<NewRule(CONTAINER_COMFYUI_PATH \o <<"custom_nodes">>, <<"custom_nodes">>, "copy", FALSE)>>]
      [] s = "new_models_copy" ->
            [style |-> "new", items |-> <<>>,
             mounts |-> <<NewRule(CONTAINER_COMFYUI_PATH \o <<"models">>, <<"models">>, "copy", FALSE)>>]
      [] OTHER -> [style |-> "error", items |-> <<>>, mounts |-> <<>>]

\* ------------------------------------------------------------------ records
\* port: metadata["port"] of a record, options["port"] of a request, 0 when
\* there is none
NoEnv == [id |-> 0, name |-> "", status |-> "", folderIds |-> {}, deleted_at |-> 0,
          duplicate |-> FALSE, image |-> "", mount_config |-> "", port |-> 0]

HasId(envs, id) == \E i \in 1..Len(envs) : envs[i].id = id
IndexOf(envs, id) == CHOOSE i \in 1..Len(envs) :
                        /\ envs[i].id = id
                        /\ \A j \in 1..(i - 1) : envs[j].id # id
\* next((e for e in environments if e["id"] == id), None)
FindEnv(envs, id) == IF HasId(envs, id) THEN envs[IndexOf(envs, id)] ELSE NoEnv

IsDeleted(env) == "deleted" \in env.folderIds

\* ------------------------------------------------------------ record store
ObservedStatus(c, id) == IF c[id] = Absent THEN "dead" ELSE c[id]

\* as Reconciled, but a container that still exists keeps its persisted status
Reconciled_TrustsStore(envs, c) ==
    [i \in 1..Len(envs) |->
        [envs[i] EXCEPT !.status = IF c[envs[i].id] = Absent THEN "dead" ELSE @]]

Reconciled(envs, c) ==
    [i \in 1..Len(envs) |-> [envs[i] EXCEPT !.status = ObservedStatus(c, envs[i].id)]]

InFolder(env, folder_id) == folder_id \in env.folderIds
NotInDeleted(env) == ~IsDeleted(env)

\* as FolderFilter, but the sentinel 'all' filters nothing
FolderFilter_AllKeepsDeleted(envs, folder_id) ==
    IF folder_id # "" /\ folder_id # "all"
    THEN SelectSeq(envs, LAMBDA e : InFolder(e, folder_id))
    ELSE envs

\* folder_id "" stands for the absent (None) filter
FolderFilter(envs, folder_id) ==
    IF folder_id # "" /\ folder_id # "all"
    THEN SelectSeq(envs, LAMBDA e : InFolder(e, folder_id))
    ELSE IF folder_id = "all"
         THEN SelectSeq(envs, NotInDeleted)
         ELSE envs

\* environments.json whose text is not JSON
CorruptFile == <<[NoEnv EXCEPT !.name = InvalidJson]>>

\* as json_load, but a file that cannot be parsed reads as the empty list
json_load_EmptyOnError(file) ==
    [ok |-> TRUE, data |-> IF file = CorruptFile THEN <<>> ELSE file]

\* json.load(f): ok is false when JSONDecodeError is raised
json_load(file) ==
    IF file = CorruptFile THEN [ok |-> FALSE, data |-> <<>>] ELSE [ok |-> TRUE, data |-> file]

\* as load_environments, but a record whose container is missing is dropped
load_environments_DropsDead(store, c, folder_id, fault) ==
    LET kept == SelectSeq(Reconciled(store, c), LAMBDA e : e.status # "dead") IN
    IF ~json_load(store).ok
    THEN [kind |-> "decode_error", store |-> store, all |-> <<>>, envs |-> <<>>]
    ELSE IF \E i \in 1..Len(store) : Fails(fault, "load_get", store[i].id)
    THEN [kind |-> "httpexc", store |-> store, all |-> <<>>, envs |-> <<>>]
    ELSE [kind |-> "list", store |-> kept, all |-> kept,
          envs |-> FolderFilter(kept, folder_id)]

\* kind "list": the store is rewritten and a list returned;
\* kind "decode_error": HTTPException 500 is raised, nothing is saved;
\* kind "httpexc": an HTTPException object is returned, nothing is saved
load_environments(store, c, folder_id, fault) ==
    LET environments == json_load(store).data IN
    IF ~json_load(store).ok
    THEN [kind |-> "decode_error", store |-> store, all |-> <<>>, envs |-> <<>>]
    ELSE IF \E i \in 1..Len(environments) : Fails(fault, "load_get", environments[i].id)
    THEN [kind |-> "httpexc", store |-> store, all |-> <<>>, envs |-> <<>>]
    ELSE [kind |-> "list", store |-> Reconciled(environments, c),
          all |-> Reconciled(environments, c),
          envs |-> FolderFilter(Reconciled(environments, c), folder_id)]

save_environment_to_db(environments, env, container_id, image, is_duplicate) ==
    Append(environments,
           [env EXCEPT !.image = image, !.id = container_id,
                       !.duplicate = is_duplicate, !.status = "created"])

\* containers.create: the engine hands out the next id
EngineCreate(c, id) == IF id \in ContainerIds THEN [c EXCEPT ![id] = "created"] ELSE c

\* -------------------------------------------------------------- observation
Obs(op, id, result, detail) ==
    [op |-> op, id |-> id, result |-> result, detail |-> detail,
     ret |-> <<>>, pre_status |-> "", stops |-> {}, started |-> FALSE,
     provisioned |-> FALSE, restarts |-> 0, arg |-> 0, failed |-> {},
     name |-> "", folder |-> "", parsed |-> FALSE]


\* ------------------------------------------------------ provisioning pipeline
\* the directory names that contain the text "custom_nodes"
CustomNodesNames == {"custom_nodes", "custom_nodes_old"}
\* "custom_nodes" in container_path
MentionsCustomNodes(path) == \E i \in 1..Len(path) : path[i] \in CustomNodesNames

RECURSIVE ConvertItems(_, _)
ConvertItems(items, comfyui_path) ==
    IF items = <<>> THEN <<>>
    ELSE LET it == Head(items) IN
         IF it.action # "mount" /\ it.action # "copy"
         THEN ConvertItems(Tail(items), comfyui_path)
         ELSE <<NewRule(CONTAINER_COMFYUI_PATH \o <<it.key>>,
                        resolve(Join(comfyui_path, <<it.key>>)), "mount", FALSE)>>
              \o ConvertItems(Tail(items), comfyui_path)

\* as convert_old_to_new_style, but only the action "mount" is converted
convert_old_to_new_style_MountOnly(old_config, comfyui_path) ==
    [style |-> "new", items |-> <<>>,
     mounts |-> ConvertItems(SelectSeq(old_config.items, LAMBDA it : it.action = "mount"),
                             comfyui_path)]

convert_old_to_new_style(old_config, comfyui_path) ==
    [style |-> "new", items |-> <<>>, mounts |-> ConvertItems(old_config.items, comfyui_path)]

\* ------------------------------------------------------------ mount resolver
\* docker.types.Mount
Mount(target, source, type, read_only) ==
    [Target |-> target, Source |-> source, Type |-> type, ReadOnly |-> read_only]

WslPath == <<"/", "usr", "lib", "wsl">>

\* the loop of _create_mounts_from_new_config; acc.dirs: the host
\* directories, with the ones the loop created
RECURSIVE MountLoop(_, _, _)
MountLoop(user_mounts, comfyui_path, acc) ==
    IF user_mounts = <<>> THEN acc
    ELSE LET m == Head(user_mounts)
             source_path == Join(comfyui_path, m.host_path)
         IN
         IF m.type # "mount" /\ m.type # "copy"
         THEN MountLoop(Tail(user_mounts), comfyui_path, acc)
         ELSE IF m.container_path = <<>> \/ m.host_path = <<>>
         THEN MountLoop(Tail(user_mounts), comfyui_path, acc)
         ELSE MountLoop(Tail(user_mounts), comfyui_path,
                        [mounts |-> Append(acc.mounts,
                                           Mount(m.container_path, resolve(source_path),
                                                 "bind", m.read_only)),
                         dirs |-> acc.dirs \cup {resolve(source_path)}])

\* as create_mounts_from_new_config, but no host directory is created
create_mounts_from_new_config_KeepsDirs(mount_config, comfyui_path, dirs, wsl) ==
    LET r == MountLoop(mount_config.mounts, comfyui_path, [mounts |-> <<>>, dirs |-> dirs])
    IN [mounts |-> IF wsl THEN Append(r.mounts, Mount(WslPath, WslPath, "bind", TRUE))
                   ELSE r.mounts,
        dirs |-> dirs]

\* wsl: /usr/lib/wsl exists on the host
create_mounts_from_new_config(mount_config, comfyui_path, dirs, wsl) ==
    LET r == MountLoop(mount_config.mounts, comfyui_path, [mounts |-> <<>>, dirs |-> dirs])
    IN [mounts |-> IF wsl THEN Append(r.mounts, Mount(WslPath, WslPath, "bind", TRUE))
                   ELSE r.mounts,
        dirs |-> r.dirs]

create_mounts(mount_config, comfyui_path, dirs, wsl) ==
    create_mounts_from_new_config(
        IF mount_config.style = "new" THEN mount_config
        ELSE convert_old_to_new_style(mount_config, comfyui_path),
        comfyui_path, dirs, wsl)

\* copied: the host directory was archived and sent; ret: the return value
process_copy_mount(mount, comfyui_path, dirs) ==
    IF mount.host_path = <<>> \/ mount.container_path = <<>>
    THEN [ret |-> FALSE, copied |-> FALSE, installs |-> 0]
    ELSE IF resolve(Join(comfyui_path, mount.host_path)) \in dirs
         THEN IF MentionsCustomNodes(mount.container_path)
              THEN [ret |-> TRUE, copied |-> TRUE, installs |-> 1]
              ELSE [ret |-> FALSE, copied |-> TRUE, installs |-> 0]
         ELSE [ret |-> FALSE, copied |-> FALSE, installs |-> 0]

process_mount_mount(mount) ==
    IF mount.type = "mount" /\ MentionsCustomNodes(mount.container_path)
    THEN [ret |-> TRUE, copied |-> FALSE, installs |-> 1]
    ELSE [ret |-> FALSE, copied |-> FALSE, installs |-> 0]

\* nothing provisioned yet; transfers: calls of put_archive, aborted: an
\* exception left the loop
NothingCopied ==
    [installed |-> FALSE, copied |-> <<>>, installs |-> 0, transfers |-> 0, aborted |-> FALSE]

\* the loop of docker_utils.py:272-283. The first put_archive or the first
\* call of install_custom_nodes on container_id may fail: copy_to_container
\* prints what put_archive raised and returns (docker_utils.py:152-157),
\* nothing catches what install_custom_nodes raises
RECURSIVE CopyLoop(_, _, _, _, _, _)
CopyLoop(mounts, container_id, comfyui_path, dirs, acc, fault) ==
    IF mounts = <<>> THEN acc
    ELSE LET m == Head(mounts)
             r == IF m.type = "copy" THEN process_copy_mount(m, comfyui_path, dirs)
                  ELSE IF m.type = "mount" THEN process_mount_mount(m)
                  ELSE [ret |-> FALSE, copied |-> FALSE, installs |-> 0]
             flag == IF m.type = "copy"
                     THEN r.ret /\ MentionsCustomNodes(m.container_path)
                     ELSE r.ret
             transferFails == /\ r.copied /\ acc.transfers = 0
                              /\ Fails(fault, "put_archive", container_id)
             installFails == /\ r.installs > 0 /\ acc.installs = 0
                             /\ Fails(fault, "install", container_id)
             after == [installed |-> acc.installed \/ (flag /\ ~installFails),
                       copied |-> IF r.copied /\ ~transferFails
                                  THEN Append(acc.copied, m.container_path)
                                  ELSE acc.copied,
                       installs |-> acc.installs + r.installs,
                       transfers |-> acc.transfers + (IF r.copied THEN 1 ELSE 0),
                       aborted |-> installFails]
         IN IF installFails THEN after
            ELSE CopyLoop(Tail(mounts), container_id, comfyui_path, dirs, after, fault)

\* as copy_directories_to_container, but a bind-mounted custom_nodes
\* directory is not reported
copy_directories_to_container_CopyOnly(container_id, comfyui_path, mount_config, dirs, fault) ==
    LET config == IF mount_config.style = "new" THEN mount_config
                  ELSE convert_old_to_new_style(mount_config, comfyui_path)
    IN CopyLoop(SelectSeq(config.mounts, LAMBDA m : m.type = "copy"), container_id,
                comfyui_path, dirs, NothingCopied, fault)

\* installed: the return value; copied: container paths that received an
\* archive; installs: calls of install_custom_nodes
copy_directories_to_container(container_id, comfyui_path, mount_config, dirs, fault) ==
    LET config == IF mount_config.style = "new" THEN mount_config
                  ELSE convert_old_to_new_style(mount_config, comfyui_path)
    IN CopyLoop(config.mounts, container_id, comfyui_path, dirs, NothingCopied, fault)

\* ------------------------------------------------------------------- engine
CanStart(status) == status \in {"created", "exited"}

\* a step of a handler: the state it leaves and what it reports
Step(store, c, obs) == [db |-> store, c |-> c, last |-> obs]

\* ----------------------------------------------------------------- activate
\* as StopOthers, but no peer is stopped
StopOthers_StopsNobody(envs, i, id, c, stops, fault) ==
    [c |-> c, stops |-> {}, aborted |-> FALSE, failed |-> {}]

\* the loop of app.py:557-565 from position i on; aborted: an API error was
\* turned into an HTTPException, failed: the peer whose call failed
RECURSIVE StopOthers(_, _, _, _, _, _)
StopOthers(envs, i, id, c, stops, fault) ==
    IF i > Len(envs) THEN [c |-> c, stops |-> stops, aborted |-> FALSE, failed |-> {}]
    ELSE LET e == envs[i] IN
         IF e.id # id /\ e.status = "running"
         THEN IF c[e.id] = Absent
              THEN StopOthers(envs, i + 1, id, c, stops, fault)
              ELSE IF Fails(fault, "get", e.id)
                   THEN [c |-> c, stops |-> stops, aborted |-> TRUE, failed |-> {e.id}]
                   ELSE IF Fails(fault, "stop", e.id)
                        THEN [c |-> c, stops |-> stops \cup {e.id}, aborted |-> TRUE,
                              failed |-> {e.id}]
                        ELSE StopOthers(envs, i + 1, id, [c EXCEPT ![e.id] = "exited"],
                                        stops \cup {e.id}, fault)
         ELSE StopOthers(envs, i + 1, id, c, stops, fault)

activate_environment(id, fault) ==
    LET r == load_environments(db, containers, "", fault)
        environments == r.all
        env == FindEnv(environments, id)
        base == [Obs("activate", id, "error", "") EXCEPT !.pre_status = env.status]
        so == IF STOP_OTHER_RUNNING_CONTAINERS
              THEN StopOthers(environments, 1, id, containers, {}, fault)
              ELSE [c |-> containers, stops |-> {}, aborted |-> FALSE, failed |-> {}]
        stopped == [base EXCEPT !.stops = so.stops, !.failed = so.failed]
        needStart == containers[id] # "running"
        cStarted == IF needStart THEN [so.c EXCEPT ![id] = "running"] ELSE so.c
        started == [stopped EXCEPT !.started = needStart]
        mount_config == json_loads(env.mount_config)
        p == copy_directories_to_container(id, ComfyuiPath, mount_config, fs, fault)
        \* parsed: json.loads of app.py:579 was reached and returned
        parsed == [started EXCEPT !.parsed = TRUE]
        provisioned == [parsed EXCEPT !.provisioned = TRUE]
        \* env.status = "running" is set on the Environment copy made at
        \* app.py:550, the dicts of the saved list are not touched
        saved == environments
    IN
    IF r.kind # "list" THEN Step(db, containers, [base EXCEPT !.detail = "load failed"])
    ELSE IF env = NoEnv THEN Step(r.store, containers, [base EXCEPT !.detail = "404 environment"])
    ELSE IF containers[id] = Absent
         THEN Step(r.store, containers, [base EXCEPT !.detail = "container not found"])
    ELSE IF Fails(fault, "get", id)
         THEN Step(r.store, containers, [base EXCEPT !.detail = "engine error at get"])
    ELSE IF so.aborted
         THEN Step(r.store, so.c, [stopped EXCEPT !.detail = "400 stopping peer"])
    ELSE IF needStart /\ (Fails(fault, "start", id) \/ ~CanStart(containers[id]))
         THEN Step(r.store, so.c, [stopped EXCEPT !.detail = "400 start"])
    ELSE IF mount_config.style = "error"
         THEN Step(r.store, cStarted, [started EXCEPT !.detail = "400 mount_config"])
    ELSE IF env.status # "created"
         THEN Step(saved, cStarted, [parsed EXCEPT !.result = "success"])
    ELSE IF p.aborted
         THEN Step(r.store, cStarted, [provisioned EXCEPT !.detail = "install failed"])
    ELSE IF ~p.installed
         THEN Step(saved, cStarted, [provisioned EXCEPT !.result = "success"])
    ELSE IF Fails(fault, "restart", id)
         THEN Step(r.store, cStarted, [provisioned EXCEPT !.detail = "400 restart"])
    ELSE Step(saved, cStarted, [provisioned EXCEPT !.result = "success", !.restarts = 1])

\* --------------------------------------------------------------- deactivate
\* as NoOpStatuses, without the states of a container that never ran
NoOpStatuses_OnlyStopped == {"stopped", "exited"}

\* the states in which deactivate returns at once, app.py:603
NoOpStatuses == {"stopped", "exited", "created", "dead"}

deactivate_environment(id, fault) ==
    LET r == load_environments(db, containers, "", fault)
        environments == r.all
        env == FindEnv(environments, id)
        base == [Obs("deactivate", id, "error", "") EXCEPT !.pre_status = env.status]
        i == IndexOf(environments, id)
    IN
    IF r.kind # "list" THEN Step(db, containers, [base EXCEPT !.detail = "load failed"])
    ELSE IF env = NoEnv THEN Step(r.store, containers, [base EXCEPT !.detail = "404 environment"])
    ELSE IF containers[id] = Absent
         THEN Step(r.store, containers, [base EXCEPT !.detail = "container not found"])
    ELSE IF Fails(fault, "get", id)
         THEN Step(r.store, containers, [base EXCEPT !.detail = "engine error at get"])
    ELSE IF containers[id] \in NoOpStatuses
         THEN Step(r.store, containers, [base EXCEPT !.result = "success", !.detail = "no-op"])
    ELSE IF Fails(fault, "stop", id)
         THEN Step(r.store, containers,
                   [base EXCEPT !.detail = "engine error at stop", !.stops = {id}])
    ELSE Step([environments EXCEPT ![i].status = "stopped"],
              [containers EXCEPT ![id] = "exited"],
              [base EXCEPT !.result = "success", !.stops = {id}])

\* -------------------------------------------------------------------- create
LongName == "name-of-129-characters"
len(name) == IF name = LongName THEN 129 ELSE 5
\* re.match(r'[a-zA-Z0-9][a-zA-Z0-9_.-]', name)
NameMatches(name) == name \notin BadNames

NameExists(environments, name) ==
    \E i \in 1..Len(environments) : environments[i].name = name

\* port = env.options.get("port", COMFYUI_PORT)
NewEnv(name, folderIds, mount_config) ==
    [NoEnv EXCEPT !.name = name, !.image = BaseImage, !.folderIds = folderIds,
                  !.mount_config = mount_config, !.port = COMFYUI_PORT]

\* as create_environment, but the record is saved before the engine is asked
\* for the container
create_environment_SavesFirst(env, path_ok, fault) ==
    LET r == load_environments(db, containers, "", fault)
        environments == r.all
        base == [Obs("create", 0, "error", "") EXCEPT !.name = env.name]
        keep == [db |-> r.store, c |-> containers, usesId |-> FALSE]
        saved == save_environment_to_db(environments, env, nextId, env.image, FALSE)
    IN
    IF ~NameMatches(env.name)
    THEN keep @@ [last |-> [base EXCEPT !.detail = "400 name invalid"]]
    ELSE IF len(env.name) > MaxNameLen
    THEN keep @@ [last |-> [base EXCEPT !.detail = "400 name too long"]]
    ELSE IF r.kind # "list"
    THEN keep @@ [last |-> [base EXCEPT !.detail = "500 load failed"]]
    ELSE IF NameExists(environments, env.name)
    THEN keep @@ [last |-> [base EXCEPT !.detail = "400 name exists"]]
    ELSE IF ~path_ok
    THEN keep @@ [last |-> [base EXCEPT !.detail = "400 comfyui path"]]
    ELSE IF json_loads(env.mount_config).style = "error"
    THEN keep @@ [last |-> [base EXCEPT !.detail = "400 mount_config"]]
    ELSE IF Fails(fault, "create", 0)
    THEN [db |-> saved, c |-> containers, usesId |-> TRUE,
          last |-> [base EXCEPT !.detail = "400 engine"]]
    ELSE [db |-> saved, c |-> EngineCreate(containers, nextId), usesId |-> TRUE,
          last |-> [base EXCEPT !.id = nextId, !.result = "success"]]

\* usesId: the engine created a container, which takes the next id
create_environment(env, path_ok, fault) ==
    LET r == load_environments(db, containers, "", fault)
        environments == r.all
        base == [Obs("create", 0, "error", "") EXCEPT !.name = env.name]
        keep == [db |-> r.store, c |-> containers, usesId |-> FALSE]
    IN
    IF ~NameMatches(env.name)
    THEN [keep EXCEPT !.db = r.store] @@ [last |-> [base EXCEPT !.detail = "400 name invalid"]]
    ELSE IF len(env.name) > MaxNameLen
    THEN keep @@ [last |-> [base EXCEPT !.detail = "400 name too long"]]
    ELSE IF r.kind # "list"
    THEN keep @@ [last |-> [base EXCEPT !.detail = "500 load failed"]]
    ELSE IF NameExists(environments, env.name)
    THEN keep @@ [last |-> [base EXCEPT !.detail = "400 name exists"]]
    ELSE IF ~path_ok
    THEN keep @@ [last |-> [base EXCEPT !.detail = "400 comfyui path"]]
    ELSE IF json_loads(env.mount_config).style = "error"
    THEN keep @@ [last |-> [base EXCEPT !.detail = "400 mount_config"]]
    ELSE IF Fails(fault, "create", 0)
    THEN keep @@ [last |-> [base EXCEPT !.detail = "400 engine"]]
    ELSE [db |-> save_environment_to_db(environments, env, nextId, env.image, FALSE),
          c |-> EngineCreate(containers, nextId),
          usesId |-> TRUE,
          last |-> [base EXCEPT !.id = nextId, !.result = "success"]]

\* ----------------------------------------------------------------- duplicate
\* the handler of docker.errors.APIError, app.py:481-491
RestoreFromBackup(img) ==
    IF img[latest_tag] = 0 THEN img
    ELSE IF img[temp_tag] = 0 THEN [img EXCEPT ![latest_tag] = 0]
    ELSE [img EXCEPT ![latest_tag] = img[temp_tag], ![temp_tag] = 0]

duplicate_environment(id, env, fault) ==
    LET r == load_environments(db, containers, "", fault)
        environments == r.all
        prev_env == FindEnv(environments, id)
        base == [Obs("duplicate", id, "error", "")
                    EXCEPT !.pre_status = prev_env.status, !.name = env.name]
        keep == [db |-> r.store, c |-> containers, img |-> images,
                 usesId |-> FALSE, usesImage |-> FALSE]
        backedUp == IF images[latest_tag] # 0
                    THEN [images EXCEPT ![temp_tag] = images[latest_tag]]
                    ELSE images
        committed == [backedUp EXCEPT ![latest_tag] = nextImage]
        cleaned == [committed EXCEPT ![temp_tag] = 0]
        new_record == [env EXCEPT !.deleted_at = prev_env.deleted_at]
        \* env.metadata is the metadata dict of prev_env itself (app.py:470), so
        \* env.metadata["port"] = port also writes the source's record
        aliased == [environments EXCEPT ![IndexOf(environments, id)].port = env.port]
    IN
    IF ~NameMatches(env.name)
    THEN keep @@ [last |-> [base EXCEPT !.detail = "400 name invalid"]]
    ELSE IF len(env.name) > MaxNameLen
    THEN keep @@ [last |-> [base EXCEPT !.detail = "400 name too long"]]
    ELSE IF r.kind # "list"
    THEN keep @@ [last |-> [base EXCEPT !.detail = "500 load failed"]]
    ELSE IF NameExists(environments, env.name)
    THEN keep @@ [last |-> [base EXCEPT !.detail = "400 name exists"]]
    ELSE IF prev_env = NoEnv
    THEN keep @@ [last |-> [base EXCEPT !.detail = "404 environment"]]
    ELSE IF prev_env.status = "created"
    THEN keep @@ [last |-> [base EXCEPT !.detail = "400 never activated"]]
    ELSE IF containers[id] = Absent
    THEN keep @@ [last |-> [base EXCEPT !.detail = "404 container"]]
    ELSE IF Fails(fault, "get", id) \/ Fails(fault, "image_get", 0)
    THEN [keep EXCEPT !.img = RestoreFromBackup(images)]
         @@ [last |-> [base EXCEPT !.detail = "engine error"]]
    ELSE IF Fails(fault, "commit", id)
    THEN [keep EXCEPT !.img = RestoreFromBackup(backedUp)]
         @@ [last |-> [base EXCEPT !.detail = "engine error at commit"]]
    ELSE IF Fails(fault, "image_remove", 0)
    THEN [keep EXCEPT !.img = RestoreFromBackup(committed), !.usesImage = TRUE]
         @@ [last |-> [base EXCEPT !.detail = "engine error removing backup"]]
    ELSE IF json_loads(env.mount_config).style = "error"
    THEN [keep EXCEPT !.img = cleaned, !.usesImage = TRUE]
         @@ [last |-> [base EXCEPT !.detail = "400 mount_config"]]
    ELSE IF Fails(fault, "create", 0)
    THEN [keep EXCEPT !.img = RestoreFromBackup(cleaned), !.usesImage = TRUE]
         @@ [last |-> [base EXCEPT !.detail = "engine error at create"]]
    ELSE [db |-> save_environment_to_db(aliased, new_record, nextId, latest_tag, FALSE),
          c |-> EngineCreate(containers, nextId),
          img |-> cleaned, usesId |-> TRUE, usesImage |-> TRUE,
          last |-> [base EXCEPT !.result = "success"]]

\* ------------------------------------------------------- hard delete, prune
StopEffect(status) == IF status \in {"running", "paused"} THEN "exited" ELSE status

RECURSIVE RemoveFirst(_, _)
\* list.remove(x): drops the first element equal to x
RemoveFirst(envs, env) ==
    IF envs = <<>> THEN <<>>
    ELSE IF Head(envs) = env THEN Tail(envs)
    ELSE <<Head(envs)>> \o RemoveFirst(Tail(envs), env)

\* as remove_image, but the tag stays in the engine
remove_image_KeepsImage(img, image) == img

\* docker_utils.remove_image(image, force=True): a tag that does not exist is
\* passed over
remove_image(img, image) == IF image \in Tags THEN [img EXCEPT ![image] = 0] ELSE img

\* as remove_backing_image, but the image is gone when the error is raised
remove_backing_image_ErasesOnError(env, img, fault) ==
    IF ~env.duplicate THEN [img |-> img, raised |-> FALSE]
    ELSE [img |-> remove_image(img, env.image),
          raised |-> Fails(fault, "image_remove", env.id)]

\* environment_manager.py:154-162: raised: the engine answered the removal
\* of the backing image with an API error, turned into HTTPException 400
remove_backing_image(env, img, fault) ==
    IF ~env.duplicate THEN [img |-> img, raised |-> FALSE]
    ELSE IF Fails(fault, "image_remove", env.id) THEN [img |-> img, raised |-> TRUE]
    ELSE [img |-> remove_image(img, env.image), raised |-> FALSE]

\* as hard_delete_environment, but the record stays in the list
hard_delete_environment_KeepsRecord(env, environments, c, img, fault) ==
    [envs |-> environments,
     c |-> IF c[env.id] = Absent THEN c ELSE [c EXCEPT ![env.id] = Absent],
     img |-> IF env.duplicate THEN remove_image(img, env.image) ELSE img,
     raised |-> FALSE, apierror |-> FALSE, crashed |-> FALSE]

\* raised: an HTTPException left the function; apierror: an API error of the
\* container calls was printed and swallowed; crashed: get_container could
\* not reach the engine, which is neither NotFound nor APIError and leaves
\* the function as it is
hard_delete_environment(env, environments, c, img, fault) ==
    LET apierror == c[env.id] # Absent /\ \E op \in {"get", "stop", "remove"} : Fails(fault, op, env.id)
        c1 == IF c[env.id] = Absent \/ Fails(fault, "get", env.id)
                 \/ Fails(fault, "stop", env.id)
              THEN c
              ELSE IF Fails(fault, "remove", env.id)
              THEN [c EXCEPT ![env.id] = StopEffect(c[env.id])]
              ELSE [c EXCEPT ![env.id] = Absent]
        b == remove_backing_image(env, img, fault)
    IN
    IF Fails(fault, "unavailable", env.id)
    THEN [envs |-> environments, c |-> c, img |-> img, raised |-> FALSE,
          apierror |-> FALSE, crashed |-> TRUE]
    ELSE IF b.raised
    THEN [envs |-> environments, c |-> c1, img |-> b.img, raised |-> TRUE,
          apierror |-> apierror, crashed |-> FALSE]
    ELSE [envs |-> RemoveFirst(environments, env), c |-> c1, img |-> b.img,
          raised |-> FALSE, apierror |-> apierror, crashed |-> FALSE]

DeletedAt(env) == env.deleted_at

RECURSIVE InsertSorted(_, _)
InsertSorted(sorted, env) ==
    IF sorted = <<>> THEN <<env>>
    ELSE IF DeletedAt(env) < DeletedAt(Head(sorted)) THEN <<env>> \o sorted
    ELSE <<Head(sorted)>> \o InsertSorted(Tail(sorted), env)

\* as SortByDeletedAt, but the list is left in store order
SortByDeletedAt_Unsorted(envs) == envs

RECURSIVE SortByDeletedAt(_)
\* list.sort(key=deleted_at): ascending and stable
SortByDeletedAt(envs) ==
    IF envs = <<>> THEN <<>>
    ELSE InsertSorted(SortByDeletedAt(SubSeq(envs, 1, Len(envs) - 1)), envs[Len(envs)])

\* failed: ids whose hard delete raised; crashed: the id whose hard delete
\* raised something other than an HTTPException, which ends the loop, or 0
RECURSIVE PruneLoop(_, _, _, _, _, _, _, _)
PruneLoop(deleted_envs, i, to_remove_count, environments, c, img, failed, fault) ==
    IF i > to_remove_count
    THEN [envs |-> environments, c |-> c, img |-> img, failed |-> failed, crashed |-> 0]
    ELSE LET h == hard_delete_environment(deleted_envs[i], environments, c, img, fault)
         IN IF h.crashed
            THEN [envs |-> h.envs, c |-> h.c, img |-> h.img,
                  failed |-> failed \cup {deleted_envs[i].id},
                  crashed |-> deleted_envs[i].id]
            ELSE PruneLoop(deleted_envs, i + 1, to_remove_count, h.envs, h.c, h.img,
                           IF h.raised THEN failed \cup {deleted_envs[i].id} ELSE failed,
                           fault)

\* saved: save_environments was reached
prune_deleted_environments(environments, max_deleted, c, img, fault) ==
    LET deleted_envs == SelectSeq(environments, IsDeleted)
        loop == PruneLoop(SortByDeletedAt(deleted_envs), 1, Len(deleted_envs) - max_deleted,
                          environments, c, img, {}, fault)
    IN
    IF Len(deleted_envs) <= max_deleted
    THEN [envs |-> environments, c |-> c, img |-> img, failed |-> {}, crashed |-> 0,
          saved |-> FALSE]
    ELSE loop @@ [saved |-> loop.crashed = 0]

\* ------------------------------------------------------------------- delete
\* soft: the record was tagged by this call
delete_environment(id, max_deleted, fault) ==
    LET r == load_environments(db, containers, "", fault)
        environments == r.all
        env == FindEnv(environments, id)
        base == [Obs("delete", id, "error", "") EXCEPT !.pre_status = env.status]
        keep == [db |-> r.store, c |-> containers, img |-> images, soft |-> FALSE]
        h == hard_delete_environment(env, environments, containers, images, fault)
        tagged == [environments EXCEPT ![IndexOf(environments, id)] =
                      [@ EXCEPT !.folderIds = {"deleted"}, !.deleted_at = clock]]
        pr == prune_deleted_environments(tagged, max_deleted, containers, images, fault)
    IN
    IF r.kind # "list"
    THEN keep @@ [last |-> [base EXCEPT !.detail = "load failed"]]
    ELSE IF env = NoEnv
    THEN keep @@ [last |-> [base EXCEPT !.detail = "404 environment"]]
    ELSE IF IsDeleted(env)
    THEN IF h.raised
         THEN [keep EXCEPT !.c = h.c, !.img = h.img]
              @@ [last |-> [base EXCEPT !.detail = "hard delete failed"]]
         ELSE [db |-> h.envs, c |-> h.c, img |-> h.img, soft |-> FALSE,
               last |-> [base EXCEPT !.result = "success",
                                     !.detail = IF h.apierror THEN "hard, engine error"
                                                ELSE "hard"]]
    ELSE [db |-> pr.envs, c |-> pr.c, img |-> pr.img, soft |-> TRUE,
          last |-> [base EXCEPT !.result = "success", !.detail = "soft"]]

\* DELETE /environments/{id} of app.py: the container is stopped and removed,
\* then the record is dropped and the list saved
app_delete_environment(id, fault) ==
    LET r == load_environments(db, containers, "", fault)
        environments == r.all
        env == FindEnv(environments, id)
        base == [Obs("app_delete", id, "error", "") EXCEPT !.pre_status = containers[id]]
        without == SelectSeq(environments, LAMBDA e : e.id # id)
    IN
    IF r.kind # "list" THEN Step(db, containers, [base EXCEPT !.detail = "load failed"])
    ELSE IF env = NoEnv
    THEN Step(r.store, containers, [base EXCEPT !.detail = "404 environment"])
    ELSE IF Fails(fault, "unavailable", id)
    THEN Step(r.store, containers, [base EXCEPT !.detail = "engine unreachable"])
    ELSE IF containers[id] = Absent
    THEN Step(without, containers,
              [base EXCEPT !.result = "success", !.detail = "container not found"])
    ELSE IF Fails(fault, "get", id) \/ Fails(fault, "stop", id)
    THEN Step(r.store, containers, [base EXCEPT !.detail = "400 api error"])
    ELSE IF Fails(fault, "remove", id)
    THEN Step(r.store, [containers EXCEPT ![id] = StopEffect(containers[id])],
              [base EXCEPT !.detail = "400 api error"])
    ELSE Step(without, [containers EXCEPT ![id] = Absent],
              [base EXCEPT !.result = "success"])

Init ==
    /\ db = <<>>
    /\ containers = [i \in ContainerIds |-> Absent]
    /\ images = [t \in Tags |-> 0]
    /\ fs = HostDirs
    /\ nextId = 1
    /\ nextImage = 1
    /\ clock = 1
    /\ last = Obs("init", 0, "success", "")
    /\ steps = 0
    /\ NoTasks

\* a request served from start to end while no other request is in flight
Tick == steps < MaxSteps /\ steps' = steps + 1 /\ UNCHANGED <<lock, tasks>>

\* GET /environments
ListEnvironments(folder_id, fault) ==
    LET r == load_environments(db, containers, folder_id, fault) IN
    /\ db' = r.store
    /\ Tick
    /\ last' = [Obs("list", 0, IF r.kind = "list" THEN "success" ELSE "error", r.kind)
                  EXCEPT !.ret = r.envs, !.folder = folder_id]
    /\ UNCHANGED <<containers, images, fs, nextId, nextImage, clock>>

\* POST /environments/{id}/activate
Activate(id, fault) ==
    LET s == activate_environment(id, fault) IN
    /\ db' = s.db
    /\ containers' = s.c
    /\ Tick
    /\ last' = s.last
    /\ UNCHANGED <<images, fs, nextId, nextImage, clock>>

\* POST /environments/{id}/deactivate
Deactivate(id, fault) ==
    LET s == deactivate_environment(id, fault) IN
    /\ db' = s.db
    /\ containers' = s.c
    /\ Tick
    /\ last' = s.last
    /\ UNCHANGED <<images, fs, nextId, nextImage, clock>>

\* the engine changes a container without the program: it exits, is paused,
\* dies, or is removed
EngineEvent(id, status) ==
    /\ containers[id] # Absent
    /\ \/ status = Absent
       \/ containers[id] = "running" /\ status \in {"exited", "paused", "dead"}
    /\ containers' = [containers EXCEPT ![id] = status]
    /\ Tick
    /\ last' = Obs("engine", id, "success", "")
    /\ UNCHANGED <<db, images, fs, nextId, nextImage, clock>>

\* the user creates or removes a host directory
HostFsEvent(dir) ==
    /\ fs' = IF dir \in fs THEN fs \ {dir} ELSE fs \cup {dir}
    /\ Tick
    /\ last' = Obs("host", 0, "success", "")
    /\ UNCHANGED <<db, containers, images, nextId, nextImage, clock>>

\* POST /environments
Create(env, path_ok, fault) ==
    LET s == create_environment(env, path_ok, fault) IN
    /\ s.usesId => nextId <= MaxEnvs
    /\ db' = s.db
    /\ containers' = s.c
    /\ nextId' = IF s.usesId THEN nextId + 1 ELSE nextId
    /\ Tick
    /\ last' = s.last
    /\ UNCHANGED <<images, fs, nextImage, clock>>

\* POST /environments/{id}/duplicate
Duplicate(id, env, fault) ==
    LET s == duplicate_environment(id, env, fault) IN
    /\ s.usesId => nextId \in ContainerIds
    /\ s.usesImage => nextImage <= MaxImages
    /\ db' = s.db
    /\ containers' = s.c
    /\ images' = s.img
    /\ nextId' = IF s.usesId THEN nextId + 1 ELSE nextId
    /\ nextImage' = IF s.usesImage THEN nextImage + 1 ELSE nextImage
    /\ Tick
    /\ last' = s.last
    /\ UNCHANGED <<fs, clock>>

\* DELETE /environments/{id}
Delete(id, max_deleted, fault) ==
    LET s == delete_environment(id, max_deleted, fault) IN
    /\ db' = s.db
    /\ containers' = s.c
    /\ images' = s.img
    /\ clock' = IF s.soft THEN clock + 1 ELSE clock
    /\ Tick
    /\ last' = s.last
    /\ UNCHANGED <<fs, nextId, nextImage>>

\* the ports a duplicate request asks for
Ports == {COMFYUI_PORT, COMFYUI_PORT + 1}

LoadFaults == FaultsOf({"load_get"}, Ids)

DoList == \E folder_id \in {"", "all", "deleted", "f1"}, fault \in LoadFaults :
             ListEnvironments(folder_id, fault)

\* a request is well-formed or has one defect: a bad name, a bad
\* mount_config, or an engine call that fails
Requests(configs, folders, faults) ==
    LET good == {NewEnv(name, folderIds, mount_config) :
                    name \in GoodNames, folderIds \in folders, mount_config \in configs}
        one == CHOOSE e \in good : TRUE
        bad == {[one EXCEPT !.name = name] : name \in BadNames \cup {LongName}}
               \cup {[one EXCEPT !.mount_config = InvalidJson]}
    IN (good \X faults) \cup (bad \X {NoFault})

DoCreate(configs, folders) ==
    \E req \in Requests(configs, folders, LoadFaults \cup FaultsOf({"create"}, {0})) :
       \/ Create(req[1], TRUE, req[2])
       \/ req[2] = NoFault /\ Create(req[1], FALSE, req[2])

\* a clone is given one of the names of Requests or a name of its own
DoDuplicate(configs) ==
    \E id \in Ids :
    \E req \in Requests(configs, {{}},
                        LoadFaults \cup FaultsOf({"get", "commit"}, {id})
                        \cup FaultsOf({"image_get", "image_remove", "create"}, {0})) :
    \E name \in {req[1].name, "env-c"} :
    \E port \in IF req[2] = NoFault THEN Ports ELSE {COMFYUI_PORT} :
       Duplicate(id, [req[1] EXCEPT !.name = name, !.port = port], req[2])

DoDelete ==
    \E id \in Ids, max_deleted \in 1..MaxDeletedLimit,
       fault \in LoadFaults \cup FaultsOf({"get", "stop", "remove", "image_remove"}, Ids) :
       Delete(id, max_deleted, fault)

DoActivate ==
    \E id \in Ids :
    \E fault \in LoadFaults \cup FaultsOf({"get", "stop"}, Ids)
                 \cup FaultsOf({"start", "put_archive", "install", "restart"}, {id}) :
       Activate(id, fault)

DoDeactivate ==
    \E id \in Ids :
    \E fault \in LoadFaults \cup FaultsOf({"get", "stop"}, {id}) :
       Deactivate(id, fault)

DoEngineEvent ==
    \E id \in Ids, status \in {Absent, "exited", "paused", "dead"} : EngineEvent(id, status)

DoHostFsEvent == \E dir \in UserDirs : HostFsEvent(dir)

\* running environments: create, list, activate, deactivate
Next ==
    \/ DoList
    \/ DoCreate(MountConfigStrings, {{}})
    \/ DoActivate
    \/ DoDeactivate
    \/ DoEngineEvent
    \/ DoHostFsEvent

Spec == Init /\ [][Next]_vars

\* duplicating environments
NextDuplicate ==
    \/ DoCreate({"new_models_copy"}, {{}})
    \/ DoActivate
    \/ DoDuplicate({"new_models_copy"})

SpecDuplicate == Init /\ [][NextDuplicate]_vars

\* deleting environments
NextDelete ==
    \/ DoCreate({"new_models_copy"}, {{}, {"f1"}})
    \/ DoActivate
    \/ DoDelete
    \/ DoEngineEvent

SpecDelete == Init /\ [][NextDelete]_vars

\* prune on its own, over the stores it can be handed
PruneIds == 1..MaxPruneRecords

PruneShapes ==
    {sh \in [deleted : BOOLEAN, deleted_at : 0..MaxStamp, duplicate : BOOLEAN] :
        ~sh.deleted => (sh.deleted_at = 0 /\ ~sh.duplicate)}

PruneRecord(i, sh) ==
    [NoEnv EXCEPT !.id = i, !.name = "env-a", !.status = "exited",
                  !.folderIds = IF sh.deleted THEN {"deleted"} ELSE {},
                  !.deleted_at = sh.deleted_at, !.duplicate = sh.duplicate,
                  !.image = IF sh.duplicate THEN latest_tag ELSE BaseImage,
                  !.mount_config = "new_models_copy"]

InitPrune ==
    /\ \E f \in [PruneIds -> PruneShapes] : db = [i \in PruneIds |-> PruneRecord(i, f[i])]
    /\ \E gone \in {{}, {1}} :
          containers = [i \in PruneIds |-> IF i \in gone THEN Absent ELSE "running"]
    /\ images = [t \in Tags |-> IF t = latest_tag THEN 1 ELSE 0]
    /\ fs = HostDirs
    /\ nextId = MaxPruneRecords + 1
    /\ nextImage = 2
    /\ clock = MaxStamp + 1
    /\ last = Obs("init", 0, "success", "")
    /\ steps = 0
    /\ NoTasks

Prune(max_deleted, fault) ==
    LET pr == prune_deleted_environments(db, max_deleted, containers, images, fault) IN
    /\ steps < MaxPrunes
    /\ Tick
    /\ db' = IF pr.saved THEN pr.envs ELSE db
    /\ containers' = pr.c
    /\ images' = pr.img
    /\ last' = [Obs("prune", pr.crashed, IF pr.crashed = 0 THEN "success" ELSE "error",
                     IF pr.saved THEN "saved"
                     ELSE IF pr.crashed = 0 THEN "nothing to prune" ELSE "aborted")
                  EXCEPT !.arg = max_deleted, !.failed = pr.failed]
    /\ UNCHANGED <<fs, nextId, nextImage, clock>>

NextPrune ==
    \E max_deleted \in 0..MaxDeletedLimit,
       fault \in FaultsOf({"remove", "image_remove", "unavailable"}, PruneIds) :
       Prune(max_deleted, fault)

SpecPrune == InitPrune /\ [][NextPrune]_vars

\* hard delete on its own, over stores of live, deleted and duplicate records
InitHardDelete ==
    /\ \E f \in [Ids -> PruneShapes] : db = [i \in Ids |-> PruneRecord(i, f[i])]
    /\ \E gone \in {{}, {1}} :
          containers = [i \in ContainerIds |->
                           IF i \in gone \/ i \notin Ids THEN Absent ELSE "running"]
    /\ images = [t \in Tags |-> IF t = latest_tag THEN 1 ELSE 0]
    /\ fs = HostDirs
    /\ nextId = MaxEnvs + 1
    /\ nextImage = 2
    /\ clock = MaxStamp + 1
    /\ last = Obs("init", 0, "success", "")
    /\ steps = 0
    /\ NoTasks

HardDelete(i, fault) ==
    LET env == db[i]
        h == hard_delete_environment(env, db, containers, images, fault)
    IN
    /\ steps < MaxPrunes
    /\ db' = h.envs
    /\ containers' = h.c
    /\ images' = h.img
    /\ Tick
    /\ last' = [Obs("hard_delete", env.id,
                     IF h.raised \/ h.crashed THEN "error" ELSE "success",
                     IF h.crashed THEN "engine unreachable"
                     ELSE IF h.raised THEN "400 image"
                     ELSE IF h.apierror THEN "engine error" ELSE "")
                  EXCEPT !.pre_status = containers[env.id], !.name = env.image]
    /\ UNCHANGED <<fs, nextId, nextImage, clock>>

AppDelete(id, fault) ==
    LET s == app_delete_environment(id, fault) IN
    /\ steps < MaxPrunes
    /\ db' = s.db
    /\ containers' = s.c
    /\ Tick
    /\ last' = s.last
    /\ UNCHANGED <<images, fs, nextId, nextImage, clock>>

HardDeleteFaults ==
    FaultsOf({"get", "stop", "remove", "image_remove", "unavailable"}, Ids)

DoHardDelete ==
    \E i \in 1..Len(db) : \E fault \in HardDeleteFaults : HardDelete(i, fault)

DoAppDelete ==
    \E id \in Ids, fault \in HardDeleteFaults : AppDelete(id, fault)

NextHardDelete ==
    \/ DoHardDelete
    \/ DoAppDelete

SpecHardDelete == InitHardDelete /\ [][NextHardDelete]_vars

\* ------------------------------------------------- requests served together
\* Each request is a task that takes the steps of its handler one at a time:
\* the file is read and written under the lock, the engine is called
\* outside of it.
\* as CanTimeOut, but the wait for the lock has no end
CanTimeOut_Never(holder, t) == FALSE

\* FileLock(LOCK_FILE, timeout=10): the wait ends with filelock.Timeout
\* while somebody else holds the lock
CanTimeOut(holder, t) == holder # 0 /\ holder # t

AcquireLock(t, next) ==
    /\ lock = 0
    /\ lock' = t
    /\ tasks' = [tasks EXCEPT ![t].pc = next]
    /\ UNCHANGED <<db, containers, nextId>>

\* except Timeout: raise HTTPException(status_code=500, ...)
LockTimeout(t) ==
    /\ CanTimeOut(lock, t)
    /\ tasks' = [tasks EXCEPT ![t].pc = "done", ![t].result = "500 lock timeout"]
    /\ UNCHANGED <<lock, db, containers, nextId>>

\* load_environments, environment_manager.py:47-58
LoadLock(t) ==
    /\ tasks[t].pc = "load_lock"
    /\ AcquireLock(t, "load_read") \/ LockTimeout(t)

LoadRead(t) ==
    /\ tasks[t].pc = "load_read"
    /\ lock' = 0
    /\ tasks' = IF json_load(db).ok
                THEN [tasks EXCEPT ![t].pc = "load_engine", ![t].envs = json_load(db).data]
                ELSE [tasks EXCEPT ![t].pc = "done", ![t].result = "500 decode error"]
    /\ UNCHANGED <<db, containers, nextId>>

\* environment_manager.py:61-69, outside the lock
LoadEngine(t) ==
    /\ tasks[t].pc = "load_engine"
    /\ tasks' = [tasks EXCEPT ![t].pc = "load_save",
                              ![t].envs = Reconciled(tasks[t].envs, containers)]
    /\ UNCHANGED <<lock, db, containers, nextId>>

\* save_environments(environments) of environment_manager.py:72
LoadSave(t) ==
    /\ tasks[t].pc = "load_save"
    /\ AcquireLock(t, "load_write") \/ LockTimeout(t)

\* where the handler goes on once load_environments has returned
AfterLoad(op) == IF op \in {"create", "activate", "duplicate"} THEN op ELSE "done"

LoadWrite(t) ==
    /\ tasks[t].pc = "load_write"
    /\ db' = tasks[t].envs
    /\ lock' = 0
    /\ tasks' = [tasks EXCEPT ![t].pc = AfterLoad(tasks[t].op), ![t].wrote = TRUE,
                              ![t].result = IF AfterLoad(tasks[t].op) = "done"
                                            THEN "success" ELSE ""]
    /\ UNCHANGED <<containers, nextId>>

\* save_environments, environment_manager.py:33-42
SaveLock(t) ==
    /\ tasks[t].pc = "save"
    /\ AcquireLock(t, "save_write") \/ LockTimeout(t)

\* as SaveWrite, but the file is left as it was
SaveWrite_KeepsFile(t) ==
    /\ tasks[t].pc = "save_write"
    /\ db' = db
    /\ lock' = 0
    /\ tasks' = [tasks EXCEPT ![t].pc = "done", ![t].wrote = TRUE, ![t].result = "success"]
    /\ UNCHANGED <<containers, nextId>>

SaveWrite(t) ==
    /\ tasks[t].pc = "save_write"
    /\ db' = tasks[t].envs
    /\ lock' = 0
    /\ tasks' = [tasks EXCEPT ![t].pc = "done", ![t].wrote = TRUE, ![t].result = "success"]
    /\ UNCHANGED <<containers, nextId>>

\* create_environment between load_environments and save_environments
CreateEngine(t) ==
    /\ tasks[t].pc = "create"
    /\ IF NameExists(tasks[t].envs, "env-c")
       THEN /\ tasks' = [tasks EXCEPT ![t].pc = "done", ![t].result = "400 name"]
            /\ UNCHANGED <<containers, nextId>>
       ELSE /\ nextId \in ContainerIds
            /\ containers' = EngineCreate(containers, nextId)
            /\ nextId' = nextId + 1
            /\ tasks' = [tasks EXCEPT ![t].pc = "save",
                                      ![t].envs = save_environment_to_db(
                                                      tasks[t].envs, NewEnv("env-c", {}, "new_models_copy"),
                                                      nextId, BaseImage, FALSE)]
    /\ UNCHANGED <<lock, db>>

\* activate_environment between load_environments and save_environments,
\* app.py:546-587; env.status is the status in the list the request loaded
ActivateEngine(t) ==
    LET id == tasks[t].arg
        env == FindEnv(tasks[t].envs, id)
        p == copy_directories_to_container(id, ComfyuiPath, json_loads(env.mount_config),
                                           fs, NoFault)
        provisions == env.status = "created"
        so == IF STOP_OTHER_RUNNING_CONTAINERS
              THEN StopOthers(tasks[t].envs, 1, id, containers, {}, NoFault)
              ELSE [c |-> containers, stops |-> {}, aborted |-> FALSE, failed |-> {}]
        needStart == containers[id] # "running"
    IN
    /\ tasks[t].pc = "activate"
    /\ IF env = NoEnv \/ containers[id] = Absent
       THEN /\ tasks' = [tasks EXCEPT ![t].pc = "done", ![t].result = "404"]
            /\ UNCHANGED containers
       ELSE IF needStart /\ ~CanStart(containers[id])
       THEN /\ tasks' = [tasks EXCEPT ![t].pc = "done", ![t].result = "400 start"]
            /\ containers' = so.c
       ELSE /\ tasks' = [tasks EXCEPT ![t].pc = "save",
                                      ![t].provisioned = provisions,
                                      ![t].restarts = IF provisions /\ p.installed
                                                      THEN 1 ELSE 0]
            /\ containers' = IF needStart THEN [so.c EXCEPT ![id] = "running"] ELSE so.c
    /\ UNCHANGED <<lock, db, nextId>>

\* duplicate_environment between load_environments and save_environments,
\* one engine call at a time; the name asked for is the task's own
DuplicateName(t) == IF t = 1 THEN "env-c" ELSE "env-d"

\* app.py:411-440: the checks, then latest is tagged as temp
DuplicateBackup(t) ==
    LET id == tasks[t].arg
        prev_env == FindEnv(tasks[t].envs, id)
    IN
    /\ tasks[t].pc = "duplicate"
    /\ IF NameExists(tasks[t].envs, DuplicateName(t))
       THEN /\ tasks' = [tasks EXCEPT ![t].pc = "done", ![t].result = "400 name"]
            /\ UNCHANGED images
       ELSE IF prev_env = NoEnv \/ containers[id] = Absent
       THEN /\ tasks' = [tasks EXCEPT ![t].pc = "done", ![t].result = "404"]
            /\ UNCHANGED images
       ELSE IF prev_env.status = "created"
       THEN /\ tasks' = [tasks EXCEPT ![t].pc = "done", ![t].result = "400 never activated"]
            /\ UNCHANGED images
       ELSE /\ tasks' = [tasks EXCEPT ![t].pc = "duplicate_commit"]
            /\ images' = IF images[latest_tag] # 0
                         THEN [images EXCEPT ![temp_tag] = images[latest_tag]]
                         ELSE images
    /\ UNCHANGED <<lock, db, containers, nextId, nextImage>>

\* container.commit(repository=image_repo, tag="latest"), app.py:443: the one
\* tag of all requests is moved to the new image
CommitTag(img, new_image) == [img EXCEPT ![latest_tag] = new_image]

DuplicateCommit(t) ==
    /\ tasks[t].pc = "duplicate_commit"
    /\ nextImage <= MaxImages
    /\ images' = CommitTag(images, nextImage)
    /\ nextImage' = nextImage + 1
    /\ tasks' = [tasks EXCEPT ![t].pc = "duplicate_remove", ![t].new_image = nextImage]
    /\ UNCHANGED <<lock, db, containers, nextId>>

\* client.images.remove(temp_tag, force=True), app.py:446-450
DuplicateRemoveBackup(t) ==
    /\ tasks[t].pc = "duplicate_remove"
    /\ images' = [images EXCEPT ![temp_tag] = 0]
    /\ tasks' = [tasks EXCEPT ![t].pc = "duplicate_create"]
    /\ UNCHANGED <<lock, db, containers, nextId, nextImage>>

\* client.containers.create(image=latest_tag, ...), app.py:456-468, and the
\* record of app.py:470-473
DuplicateCreate(t) ==
    LET id == tasks[t].arg
        environments == tasks[t].envs
        env == NewEnv(DuplicateName(t), {}, FindEnv(environments, id).mount_config)
        aliased == [environments EXCEPT ![IndexOf(environments, id)].port = env.port]
    IN
    /\ tasks[t].pc = "duplicate_create"
    /\ nextId \in ContainerIds
    /\ containers' = EngineCreate(containers, nextId)
    /\ nextId' = nextId + 1
    /\ tasks' = [tasks EXCEPT ![t].pc = "save",
                              ![t].image = images[latest_tag],
                              ![t].envs = save_environment_to_db(aliased, env, nextId,
                                                                 latest_tag, FALSE)]
    /\ UNCHANGED <<lock, db, images, nextImage>>

\* a request arrives; data: the list handed to save_environments
StartTask(t, op, arg, data) ==
    /\ tasks[t].pc = "idle"
    /\ op = "create" => \A u \in Tasks : tasks[u].op # "create"
    /\ tasks' = [tasks EXCEPT ![t] = [Idle EXCEPT !.op = op, !.arg = arg, !.envs = data,
                                                  !.pc = IF op = "save" THEN "save"
                                                         ELSE IF op = "app_list"
                                                         THEN "app_load_read"
                                                         ELSE "load_lock"]]
    /\ UNCHANGED <<lock, db, containers, nextId>>

\* another process takes the lock file and gives it back
ExternalLock ==
    /\ lock' = IF lock = 0 THEN ExternalHolder ELSE 0
    /\ lock \in {0, ExternalHolder}
    /\ UNCHANGED <<db, containers, nextId, tasks>>

Elsewhere == UNCHANGED <<images, fs, nextImage, clock, last, steps>>

StoreStep(t) ==
    /\ LoadLock(t) \/ LoadRead(t) \/ LoadEngine(t) \/ LoadSave(t) \/ LoadWrite(t)
       \/ SaveLock(t) \/ SaveWrite(t)
    /\ Elsewhere

HandlerStep(t) ==
    /\ CreateEngine(t) \/ ActivateEngine(t)
    /\ Elsewhere

TaskRecord(i) ==
    [NoEnv EXCEPT !.id = i, !.name = IF i = 1 THEN "env-a" ELSE "env-b",
                  !.status = "exited", !.image = BaseImage,
                  !.mount_config = "new_models_copy", !.port = COMFYUI_PORT]

InitTasks ==
    /\ db = [i \in Ids |-> TaskRecord(i)]
    /\ containers = [i \in ContainerIds |-> IF i \in Ids THEN "exited" ELSE Absent]
    /\ images = [t \in Tags |-> 0]
    /\ fs = HostDirs
    /\ nextId = MaxEnvs + 1
    /\ nextImage = 1
    /\ clock = 1
    /\ last = Obs("init", 0, "success", "")
    /\ steps = 0
    /\ NoTasks

\* loads and saves next to another process that takes the lock
SaveData == {<<>>, <<TaskRecord(1)>>}

DoStartStore ==
    \E t \in Tasks :
       /\ \/ StartTask(t, "load", 0, <<>>)
          \/ \E data \in SaveData : StartTask(t, "save", 0, data)
       /\ Elsewhere

DoStoreStep == \E t \in Tasks : StoreStep(t)

DoExternalLock == ExternalLock /\ Elsewhere

NextLock ==
    \/ DoStartStore
    \/ DoStoreStep
    \/ DoExternalLock

\* a task that can take a step takes it
SpecLock == InitTasks /\ [][NextLock]_vars /\ \A t \in Tasks : WF_vars(StoreStep(t))

\* list, create and activate requests served together
DoStartRequest ==
    \E t \in Tasks :
       /\ \/ StartTask(t, "list", 0, <<>>)
          \/ StartTask(t, "create", 0, <<>>)
          \/ \E id \in Ids : StartTask(t, "activate", id, <<>>)
       /\ Elsewhere

DoHandlerStep == \E t \in Tasks : HandlerStep(t)

NextConcurrent ==
    \/ DoStartRequest
    \/ DoStoreStep
    \/ DoHandlerStep

SpecConcurrent == InitTasks /\ [][NextConcurrent]_vars

\* the store functions of app.py: the file is opened without the lock
\* load_environments, app.py:51-54
AppLoadRead(t) ==
    /\ tasks[t].pc = "app_load_read"
    /\ tasks' = IF json_load(db).ok
                THEN [tasks EXCEPT ![t].pc = "app_load_engine", ![t].envs = json_load(db).data]
                ELSE [tasks EXCEPT ![t].pc = "done", ![t].result = "500 decode error"]
    /\ UNCHANGED <<lock, db, containers, nextId>>

\* app.py:57-64
AppLoadEngine(t) ==
    /\ tasks[t].pc = "app_load_engine"
    /\ tasks' = [tasks EXCEPT ![t].pc = "app_save_open",
                              ![t].envs = Reconciled(tasks[t].envs, containers)]
    /\ UNCHANGED <<lock, db, containers, nextId>>

\* save_environments, app.py:45-46: open(DB_FILE, "w") empties the file
AppSaveOpen(t) ==
    /\ tasks[t].pc = "app_save_open"
    /\ db' = CorruptFile
    /\ tasks' = [tasks EXCEPT ![t].pc = "app_save_dump"]
    /\ UNCHANGED <<lock, containers, nextId>>

\* app.py:47: json.dump(data, f, indent=4) and the end of the with block
AppSaveDump(t) ==
    /\ tasks[t].pc = "app_save_dump"
    /\ db' = tasks[t].envs
    /\ tasks' = [tasks EXCEPT ![t].pc = "done", ![t].wrote = TRUE, ![t].result = "success"]
    /\ UNCHANGED <<lock, containers, nextId>>

AppStoreStep(t) ==
    /\ AppLoadRead(t) \/ AppLoadEngine(t) \/ AppSaveOpen(t) \/ AppSaveDump(t)
    /\ Elsewhere

\* list_environments of app.py and of the locked store, served together
DoStartList ==
    \E t \in Tasks :
       /\ StartTask(t, "app_list", 0, <<>>) \/ StartTask(t, "list", 0, <<>>)
       /\ Elsewhere

DoAppStoreStep == \E t \in Tasks : AppStoreStep(t)

\* load_environments of environment_manager.py, a step at a time
LoadStep(t) ==
    /\ LoadLock(t) \/ LoadRead(t) \/ LoadEngine(t) \/ LoadSave(t) \/ LoadWrite(t)
    /\ Elsewhere

DoLoadStep == \E t \in Tasks : LoadStep(t)

NextStores ==
    \/ DoStartList
    \/ DoLoadStep
    \/ DoAppStoreStep

SpecStores == InitTasks /\ [][NextStores]_vars

\* activate requests on records that were never activated
CreatedRecord(i) ==
    [TaskRecord(i) EXCEPT !.status = "created", !.mount_config = "new_cn_copy"]

InitCreated ==
    /\ db = [i \in Ids |-> CreatedRecord(i)]
    /\ containers = [i \in ContainerIds |-> IF i \in Ids THEN "created" ELSE Absent]
    /\ images = [t \in Tags |-> 0]
    /\ fs = HostDirs
    /\ nextId = MaxEnvs + 1
    /\ nextImage = 1
    /\ clock = 1
    /\ last = Obs("init", 0, "success", "")
    /\ steps = 0
    /\ NoTasks

DoStartActivate ==
    \E t \in Tasks, id \in Ids : StartTask(t, "activate", id, <<>>) /\ Elsewhere

DoActivateStep == \E t \in Tasks : ActivateEngine(t) /\ Elsewhere

NextActivates ==
    \/ DoStartActivate
    \/ DoStoreStep
    \/ DoActivateStep

SpecActivates == InitCreated /\ [][NextActivates]_vars

\* duplicate requests served together
DuplicateStep(t) ==
    /\ DuplicateBackup(t) \/ DuplicateCommit(t) \/ DuplicateRemoveBackup(t)
       \/ DuplicateCreate(t)
    /\ UNCHANGED <<fs, clock, last, steps>>

DoStartDuplicate ==
    \E t \in Tasks, id \in Ids : StartTask(t, "duplicate", id, <<>>) /\ Elsewhere

DoDuplicateStep == \E t \in Tasks : DuplicateStep(t)

NextDuplicates ==
    \/ DoStartDuplicate
    \/ DoStoreStep
    \/ DoDuplicateStep

SpecDuplicates == InitTasks /\ [][NextDuplicates]_vars

\* the provisioning of a created environment under engine failures
PipelineRules ==
    {NewRule(CONTAINER_COMFYUI_PATH \o <<"custom_nodes">>, <<"custom_nodes">>, "copy", FALSE),
     NewRule(CONTAINER_COMFYUI_PATH \o <<"models">>, <<"models">>, "copy", FALSE),
     NewRule(CONTAINER_COMFYUI_PATH \o <<"custom_nodes">>, <<"custom_nodes">>, "mount", FALSE)}
PipelineConfigs ==
    {[style |-> "new", items |-> <<>>, mounts |-> <<a, b>>] : a, b \in PipelineRules}

\* app.py:583-586: the pipeline, then the restart when it reports an install
ProvisionCreated(id, mount_config, fault) ==
    LET p == copy_directories_to_container(id, ComfyuiPath, mount_config, fs, fault)
        restarts == p.installed /\ ~p.aborted
        restartFails == restarts /\ Fails(fault, "restart", id)
        result == IF p.aborted \/ restartFails THEN "error" ELSE "success"
        detail == IF p.aborted THEN "500 install"
                  ELSE IF restartFails THEN "400 restart" ELSE ""
    IN
    /\ steps < MaxProvisions
    /\ Tick
    /\ last' = [Obs("provision", id, result, detail)
                  EXCEPT !.ret = [mount_config |-> mount_config, before |-> fs,
                                  fault |-> fault, copied |-> p.copied,
                                  installs |-> p.installs, installed |-> p.installed],
                         !.provisioned = TRUE,
                         !.restarts = IF restarts /\ ~restartFails THEN 1 ELSE 0]
    /\ UNCHANGED <<db, containers, images, fs, nextId, nextImage, clock>>

DoProvisionCreated ==
    \E id \in Ids, mount_config \in PipelineConfigs :
    \E fault \in FaultsOf({"put_archive", "install", "restart"}, {id}) :
       ProvisionCreated(id, mount_config, fault)

NextPipeline ==
    \/ DoProvisionCreated
    \/ DoHostFsEvent

SpecPipeline == Init /\ [][NextPipeline]_vars

\* ------------------------------------------------ install_custom_nodes
\* A requirements.txt is a sequence of characters; "t" and "v" stand for the
\* characters of a package name, so <<"t">> is a name and <<"t", "v">> is a
\* longer name that starts with it.
NameChars == {"t", "v"}
Whitespace == {" ", "\n"}
ManifestChars == NameChars \cup Whitespace \cup {"=", "\""}
\* BLACKLIST_REQUIREMENTS = ['torch'], one name
BLACKLIST_REQUIREMENTS == {<<"t">>}
Blacklists == SUBSET (BLACKLIST_REQUIREMENTS \cup {<<"v", "t">>})

RECURSIVE lstrip(_)
lstrip(text) ==
    IF text # <<>> /\ Head(text) \in Whitespace THEN lstrip(Tail(text)) ELSE text

RECURSIVE rstrip(_)
rstrip(text) ==
    IF text # <<>> /\ text[Len(text)] \in Whitespace
    THEN rstrip(SubSeq(text, 1, Len(text) - 1)) ELSE text

\* str.strip()
strip(text) == rstrip(lstrip(text))

\* str.split('\n'): the empty text gives one empty line
RECURSIVE split(_)
split(text) ==
    IF \A i \in 1..Len(text) : text[i] # "\n" THEN <<text>>
    ELSE LET i == CHOOSE k \in 1..Len(text) :
                     text[k] = "\n" /\ \A j \in 1..(k - 1) : text[j] # "\n"
         IN <<SubSeq(text, 1, i - 1)>> \o split(SubSeq(text, i + 1, Len(text)))

\* the longest run of name characters at the start of text
RECURSIVE NameRun(_)
NameRun(text) ==
    IF text # <<>> /\ Head(text) \in NameChars
    THEN <<Head(text)>> \o NameRun(Tail(text)) ELSE <<>>

\* re.match(r'^\s*([a-zA-Z0-9\-_]+)', line).group(1), <<>> when there is no
\* match
package_name(line) == NameRun(lstrip(line))

\* docker_utils.py:358-366
filtered_requirements(requirements_content, blacklist) ==
    SelectSeq(requirements_content,
              LAMBDA line : ~(package_name(line) # <<>> /\ package_name(line) \in blacklist))

\* sh -c 'echo "<lines>" > temp_requirements.txt': the shell takes every
\* double quote of the lines as its own syntax, none of them reaches the file
EchoKeeps(lines) == \A i \in 1..Len(lines) : \A j \in 1..Len(lines[i]) : lines[i][j] # "\""

\* docker_utils.py:354-380 for one custom node whose requirements.txt holds
\* manifest; ran: pip install was run, verbatim: the file pip read holds
\* the lines as they are in filtered
install_custom_nodes(manifest, blacklist) ==
    LET requirements_content == split(strip(manifest))
        filtered == filtered_requirements(requirements_content, blacklist)
    IN [filtered |-> filtered, ran |-> filtered # <<>>, verbatim |-> EchoKeeps(filtered)]

Manifests == UNION {[1..n -> ManifestChars] : n \in 0..MaxManifestLen}

InstallCustomNodes(manifest, blacklist) ==
    /\ steps = 0
    /\ Tick
    /\ last' = [Obs("install_custom_nodes", 0, "success", "")
                  EXCEPT !.ret = [manifest |-> manifest, blacklist |-> blacklist,
                                  installed |-> install_custom_nodes(manifest, blacklist)]]
    /\ UNCHANGED <<db, containers, images, fs, nextId, nextImage, clock>>

DoInstallCustomNodes ==
    \E manifest \in Manifests, blacklist \in Blacklists :
       InstallCustomNodes(manifest, blacklist)

NextInstall == DoInstallCustomNodes

SpecInstall == Init /\ [][NextInstall]_vars

\* ---------------------------------------------------- copy_to_container
\* The host directory is a set of paths relative to it; a path whose last
\* name is "f.py" is a file, every other path is a directory.
EXCLUDE_CUSTOM_NODE_DIRS == {"__pycache__", "ComfyUI-Manager"}
TreePaths ==
    {<<"f.py">>, <<"pkg">>, <<"pkg", "f.py">>, <<"pkg", "__pycache__">>,
     <<"pkg", "__pycache__", "f.py">>, <<"__pycache__">>, <<"__pycache__", "f.py">>,
     <<"ComfyUI-Manager">>, <<"ComfyUI-Manager", "f.py">>}
is_dir(path) == path[Len(path)] # "f.py"
Parent(path) == SubSeq(path, 1, Len(path) - 1)
\* the directories that can exist: every path has its parent
Trees == {tree \in SUBSET TreePaths :
             \A path \in tree : Len(path) > 1 => Parent(path) \in tree}
\* path and all that is below it
Subtree(tree, path) ==
    {q \in tree : Len(q) >= Len(path) /\ SubSeq(q, 1, Len(path)) = path}

\* docker_utils.py:131-138: rglob('*') yields every path below the source;
\* a directory with an excluded name is passed over, every other path is
\* handed to archive.add, which adds a directory with all that is below it
copy_to_container(tree, exclude_dirs) ==
    UNION {Subtree(tree, path) :
              path \in {q \in tree : ~(is_dir(q) /\ q[Len(q)] \in exclude_dirs)}}

\* the directories os.walk enters, app.py:109-111: the excluded names are
\* taken out of dirs before the walk descends
Walked(tree, exclude_dirs) ==
    {<<>>} \cup {d \in tree : is_dir(d) /\ \A i \in 1..Len(d) : d[i] \notin exclude_dirs}

\* app.py:107-116: the files of the directories that are walked
app_copy_to_container(tree, exclude_dirs) ==
    {path \in tree : ~is_dir(path) /\ Parent(path) \in Walked(tree, exclude_dirs)}

CopyToContainer(module, tree) ==
    /\ steps = 0
    /\ Tick
    /\ last' = [Obs("copy_to_container", 0, "success", "")
                  EXCEPT !.name = module,
                         !.ret = [tree |-> tree,
                                  archive |-> IF module = "app"
                                              THEN app_copy_to_container(
                                                       tree, EXCLUDE_CUSTOM_NODE_DIRS)
                                              ELSE copy_to_container(
                                                       tree, EXCLUDE_CUSTOM_NODE_DIRS)]]
    /\ UNCHANGED <<db, containers, images, fs, nextId, nextImage, clock>>

DoCopyToContainer ==
    \E module \in {"app", "docker_utils"}, tree \in Trees : CopyToContainer(module, tree)

NextArchive == DoCopyToContainer

SpecArchive == Init /\ [][NextArchive]_vars

\* the mount resolver on its own, over legacy mount specs
LegacyKeyList == <<"custom_nodes", "models", "user", "input", "output">>
LegacyActions == {"mount", "copy", "skip"}
ContentRoots == {ComfyuiPath, <<"comfy">>}

\* the legacy spec that gives key i the action f[i], or leaves it out
LegacyConfig(f) ==
    [style |-> "old",
     items |-> SelectSeq([i \in 1..MaxLegacyKeys |-> OldItem(LegacyKeyList[i], f[i])],
                         LAMBDA it : it.action # "absent"),
     mounts |-> <<>>]

LegacyConfigs ==
    {LegacyConfig(f) : f \in [1..MaxLegacyKeys -> LegacyActions \cup {"absent"}]}

ResolveMounts(mount_config, comfyui_path, wsl) ==
    LET r == create_mounts(mount_config, comfyui_path, fs, wsl) IN
    /\ fs' = r.dirs
    /\ Tick
    /\ last' = [Obs("create_mounts", 0, "success", "")
                  EXCEPT !.ret = [mount_config |-> mount_config,
                                  comfyui_path |-> comfyui_path,
                                  converted |-> convert_old_to_new_style(mount_config,
                                                                         comfyui_path).mounts,
                                  mounts |-> r.mounts]]
    /\ UNCHANGED <<db, containers, images, nextId, nextImage, clock>>

DoResolveMounts ==
    \E mount_config \in LegacyConfigs, comfyui_path \in ContentRoots, wsl \in BOOLEAN :
       ResolveMounts(mount_config, comfyui_path, wsl)

NextMounts ==
    \/ DoResolveMounts
    \/ DoHostFsEvent

SpecMounts == Init /\ [][NextMounts]_vars

\* the resolver and the provisioning pipeline over rule lists and legacy specs
ExtensionsDir == CONTAINER_COMFYUI_PATH \o <<"custom_nodes">>
RuleContainerPaths == {ExtensionsDir, CONTAINER_COMFYUI_PATH \o <<"models">>,
                       CONTAINER_COMFYUI_PATH \o <<"custom_nodes_old">>}
RuleHostPaths == {<<"custom_nodes">>, <<"models">>, <<"/", "data", "models">>}
Rules ==
    {NewRule(cpath, hpath, type, ro) :
        cpath \in RuleContainerPaths, hpath \in RuleHostPaths,
        type \in {"mount", "copy"}, ro \in BOOLEAN}
\* the rules that are also seen in second place
PairRules ==
    {NewRule(ExtensionsDir, <<"custom_nodes">>, type, FALSE) : type \in {"mount", "copy"}}
RuleConfig(mounts) == [style |-> "new", items |-> <<>>, mounts |-> mounts]
RuleConfigs ==
    {RuleConfig(<<r>>) : r \in Rules} \cup {RuleConfig(<<a, b>>) : a \in Rules, b \in PairRules}

ResolveRules(mount_config, comfyui_path, wsl) ==
    LET r == create_mounts_from_new_config(mount_config, comfyui_path, fs, wsl) IN
    /\ steps < MaxProvisions
    /\ fs' = r.dirs
    /\ Tick
    /\ last' = [Obs("create_mounts_from_new_config", 0, "success", "")
                  EXCEPT !.ret = [mount_config |-> mount_config,
                                  comfyui_path |-> comfyui_path,
                                  before |-> fs,
                                  mounts |-> r.mounts]]
    /\ UNCHANGED <<db, containers, images, nextId, nextImage, clock>>

CopyDirectories(mount_config, comfyui_path) ==
    LET r == copy_directories_to_container(0, comfyui_path, mount_config, fs, NoFault) IN
    /\ steps < MaxProvisions
    /\ Tick
    /\ last' = [Obs("copy_directories_to_container", 0, "success", "")
                  EXCEPT !.ret = [mount_config |-> mount_config,
                                  comfyui_path |-> comfyui_path,
                                  before |-> fs,
                                  installed |-> r.installed,
                                  copied |-> r.copied,
                                  installs |-> r.installs]]
    /\ UNCHANGED <<db, containers, images, fs, nextId, nextImage, clock>>

DoResolveRules ==
    \E mount_config \in RuleConfigs, comfyui_path \in ContentRoots, wsl \in BOOLEAN :
       ResolveRules(mount_config, comfyui_path, wsl)

DoCopyDirectories ==
    \E mount_config \in RuleConfigs \cup LegacyConfigs, comfyui_path \in ContentRoots :
       CopyDirectories(mount_config, comfyui_path)

NextProvision ==
    \/ DoResolveRules
    \/ DoCopyDirectories
    \/ DoHostFsEvent

SpecProvision == Init /\ [][NextProvision]_vars

\* load on its own, over the stores and engine states it can meet
ListFolders == {{}, {"f1"}, {"deleted"}}

ListRecord(i, folderIds) ==
    [NoEnv EXCEPT !.id = i, !.name = "env-a", !.status = "created",
                  !.folderIds = folderIds, !.image = BaseImage,
                  !.mount_config = "new_models_copy"]

InitList ==
    /\ \/ \E f \in [Ids -> ListFolders] : db = [i \in Ids |-> ListRecord(i, f[i])]
       \/ db = CorruptFile
    /\ \E st \in [Ids -> {Absent, "running"}] :
          containers = [i \in ContainerIds |-> IF i \in Ids THEN st[i] ELSE Absent]
    /\ images = [t \in Tags |-> 0]
    /\ fs = HostDirs
    /\ nextId = MaxEnvs + 1
    /\ nextImage = 1
    /\ clock = 1
    /\ last = Obs("init", 0, "success", "")
    /\ steps = 0
    /\ NoTasks

NextList ==
    \/ DoList
    \/ DoEngineEvent

SpecList == InitList /\ [][NextList]_vars

\* --------------------------------------------------------------- properties
\* what the engine reports for a container id, read off the engine state
EngineReports(id) == IF containers[id] = Absent THEN "dead" ELSE containers[id]

ListReturned == last.op = "list" /\ last.result = "success"

\* C1: whenever load_environments returns a record list, every returned
\* record carries the status the engine reported for its id in this load
\* ('dead' for a missing container), and the store file holds the same
\* reconciled statuses.
C1_LoadReturnsReconciled ==
    ListReturned =>
        /\ \A i \in 1..Len(last.ret) : last.ret[i].status = EngineReports(last.ret[i].id)
        /\ \A i \in 1..Len(db) : db[i].status = EngineReports(db[i].id)

\* a load returned a record whose container is gone, so its persisted
\* status ("created" or later) was replaced
C1_Witness ==
    /\ ListReturned
    /\ \E i \in 1..Len(last.ret) :
          last.ret[i].status = "dead" /\ containers[last.ret[i].id] = Absent
\* ---- activate -------------------------------------------------------------
ActivateSucceeded == last.op = "activate" /\ last.result = "success"

\* the record of the last request's target, as persisted
Target == FindEnv(db, last.id)

\* the mount spec has a custom_nodes rule whose action is mount or copy
HasCustomNodesRule(cfg) ==
    \/ /\ cfg.style = "old"
       /\ \E i \in 1..Len(cfg.items) :
             cfg.items[i].key = "custom_nodes" /\ cfg.items[i].action \in {"mount", "copy"}
    \/ /\ cfg.style = "new"
       /\ \E i \in 1..Len(cfg.mounts) :
             /\ MentionsCustomNodes(cfg.mounts[i].container_path)
             /\ cfg.mounts[i].type \in {"mount", "copy"}

\* ... and the rule is a mount, or a copy whose host directory exists
HasProvisionableRule(cfg, dirs) ==
    \/ /\ cfg.style = "old"
       /\ \E i \in 1..Len(cfg.items) :
             /\ cfg.items[i].key = "custom_nodes"
             /\ \/ cfg.items[i].action = "mount"
                \/ /\ cfg.items[i].action = "copy"
                   /\ Join(ComfyuiPath, <<cfg.items[i].key>>) \in dirs
    \/ /\ cfg.style = "new"
       /\ \E i \in 1..Len(cfg.mounts) :
             /\ MentionsCustomNodes(cfg.mounts[i].container_path)
             /\ \/ cfg.mounts[i].type = "mount"
                \/ /\ cfg.mounts[i].type = "copy"
                   /\ Join(ComfyuiPath, cfg.mounts[i].host_path) \in dirs

C8_PersistedRunning == ActivateSucceeded => Target.status = "running"

\* C9: after a successful activate no other record's container is running
\* and the target's is.
C9_OnlyTargetRuns ==
    ActivateSucceeded =>
        /\ containers[last.id] = "running"
        /\ \A i \in 1..Len(db) : db[i].id # last.id => containers[db[i].id] # "running"

\* an activation that had to stop a running peer
C9_Witness == ActivateSucceeded /\ last.stops # {}

\* C10 as stated: when the engine rejects the stop of a peer, the target is
\* started all the same.
C10_PeerFailureDoesNotAbort ==
    (last.op = "activate" /\ last.failed # {}) =>
        (last.started \/ containers[last.id] = "running")

\* ---- deactivate -----------------------------------------------------------
DeactivateAnswered ==
    /\ last.op = "deactivate"
    /\ HasId(db, last.id)
    /\ last.detail \notin {"load failed", "engine error at get", "engine error at stop"}

\* C7 as stated: with the container stopped, exited, created or dead, or
\* missing (the record then reads 'dead'), deactivate succeeds, issues no
\* stop and leaves the record alone; otherwise it stops the container and
\* persists 'stopped'.
C7_Original ==
    DeactivateAnswered =>
        IF last.pre_status \in {"stopped", "exited", "created", "dead"}
        THEN last.result = "success" /\ last.stops = {} /\ Target.status = last.pre_status
        ELSE /\ last.result = "success" /\ last.stops = {last.id}
             /\ containers[last.id] = "exited" /\ Target.status = "stopped"

\* C7 as amended: a missing container makes deactivate fail (no stop, record
\* untouched); an API error of the stop leaves the record untouched.
C7_DeactivateNoOpOrStop ==
    /\ DeactivateAnswered =>
          IF containers[last.id] = Absent
          THEN last.result = "error" /\ last.stops = {} /\ Target.status = "dead"
          ELSE IF last.pre_status \in {"stopped", "exited", "created", "dead"}
          THEN /\ last.result = "success" /\ last.stops = {}
               /\ Target.status = last.pre_status /\ containers[last.id] = last.pre_status
          ELSE /\ last.result = "success" /\ last.stops = {last.id}
               /\ containers[last.id] = "exited" /\ Target.status = "stopped"
    /\ (last.op = "deactivate" /\ last.detail = "engine error at stop") =>
          (last.result = "error" /\ Target.status = last.pre_status)

\* deactivate was a no-op on a container that never ran
C7_Witness ==
    /\ DeactivateAnswered /\ last.result = "success"
    /\ last.pre_status = "created" /\ last.stops = {}

\* ---- duplicate ------------------------------------------------------------
\* C3 as stated: duplicate is rejected when the source's status is 'created';
\* when it succeeds the record it adds is marked as a duplicate and has
\* status 'created'.
C3_DuplicateMarked ==
    last.op = "duplicate" =>
        /\ last.pre_status = "created" => last.result = "error"
        /\ last.result = "success" =>
              (db[Len(db)].duplicate /\ db[Len(db)].status = "created")

\* C4 as stated: if <repo>:latest existed and the creation of the new
\* container fails, the tag refers to the same image again when the error is
\* re-raised.
C4_LatestRestored ==
    [][(/\ last'.op = "duplicate"
        /\ last'.detail = "engine error at create"
        /\ images[latest_tag] # 0)
          => images'[latest_tag] = images[latest_tag]]_vars

DeletedIndices(envs) == {i \in 1..Len(envs) : IsDeleted(envs[i])}

RECURSIVE WithoutIndices(_, _, _)
WithoutIndices(envs, gone, i) ==
    IF i > Len(envs) THEN <<>>
    ELSE (IF i \in gone THEN <<>> ELSE <<envs[i]>>) \o WithoutIndices(envs, gone, i + 1)

\* C6: with n 'deleted' records, n > max_deleted and no hard delete failing,
\* prune removes exactly the n - max_deleted with the smallest deleted_at
\* (missing counts as 0) and nothing else, and saves; with n <= max_deleted
\* the store is unchanged.
C6_PruneRemovesOldest ==
    [][(last'.op = "prune" /\ last'.failed = {}) =>
          LET del == DeletedIndices(db)
              n == Cardinality(del)
          IN IF n > last'.arg
             THEN \E gone \in SUBSET del :
                     /\ Cardinality(gone) = n - last'.arg
                     /\ \A i \in gone, j \in del \ gone :
                           db[i].deleted_at <= db[j].deleted_at
                     /\ db' = WithoutIndices(db, gone, 1)
             ELSE db' = db]_vars

\* a prune removed two records and kept a 'deleted' one
C6_Witness ==
    /\ last.op = "prune" /\ last.failed = {} /\ last.detail = "saved"
    /\ Len(db) + 2 <= MaxPruneRecords
    /\ DeletedIndices(db) # {}
\* the records of two stores agree in everything but the reconciled status
SameRecords(a, b) ==
    /\ Len(a) = Len(b)
    /\ \A i \in 1..Len(a) : [a[i] EXCEPT !.status = ""] = [b[i] EXCEPT !.status = ""]

\* C11: a create that fails (validation, image not found, engine error)
\* leaves the store with exactly the records it had before the call: no
\* record of the attempted environment is persisted.
C11_FailedCreatePersistsNothing ==
    [][(last'.op = "create" /\ last'.result = "error") => SameRecords(db', db)]_vars

C11_Witness ==
    /\ last.op = "create" /\ last.result = "error" /\ last.detail = "400 engine"
    /\ Len(db) > 0

\* C12: whenever hard_delete_environment erases a record whose duplicate flag
\* is true, the record's backing image is gone from the engine afterwards
\* (removed, or absent before); a duplicate whose image removal failed with
\* an engine error is never erased.
C12_DuplicateErasedImageGone ==
    [][\A i \in 1..Len(db) :
          LET env == db[i] IN
          /\ (env.duplicate /\ ~HasId(db', env.id)) =>
                 (images'[env.image] = 0 /\ env.id \notin last'.failed)
          /\ (env.id \in last'.failed /\ env.id # last'.id) =>
                 (env.duplicate /\ HasId(db', env.id))]_vars

C12_Witness ==
    /\ last.op = "prune" /\ last.failed # {}
    /\ images[latest_tag] = 0
    /\ \E id \in PruneIds : ~HasId(db, id)
    /\ \A id \in last.failed : HasId(db, id) /\ FindEnv(db, id).duplicate

\* C19: in prune, a hard delete that fails (engine API error, image removal
\* error, engine unreachable) does not abort the pruning: the failed record
\* stays, every other excess record is hard-deleted, and the updated store
\* is saved.
C19_FailureDoesNotAbortPrune ==
    [][(last'.op = "prune" /\ last'.failed # {}) =>
          /\ last'.detail = "saved"
          /\ \A id \in last'.failed : HasId(db', id)
          /\ Cardinality(DeletedIndices(db')) = last'.arg + Cardinality(last'.failed)]_vars

\* C13: the image reference of a record made by duplicate is shared with no
\* other record of the store, so that removing the image of one duplicate
\* cannot take away the image another record refers to.
C13_CloneImageExclusive ==
    [][(last'.op = "duplicate" /\ last'.result = "success") =>
          \A i \in 1..(Len(db') - 1) : db'[i].image # db'[Len(db')].image]_vars

ValidationDetails == {"400 name invalid", "400 name too long", "400 mount_config"}

\* C15: validation comes before every state-changing engine call: a create
\* that fails validation has created no container, and activate has neither
\* stopped nor started a container unless the mount_config was parsed
\* successfully.
C15_ValidatedBeforeEngine ==
    [][/\ (last'.op = "create" /\ last'.detail \in ValidationDetails) =>
             containers' = containers
       /\ (last'.op = "activate" /\ (last'.stops \ last'.failed # {} \/ last'.started)) =>
             last'.parsed]_vars

\* ---- load ------------------------------------------------------------------
\* C16: when the engine lookup of a record fails with an error other than
\* not-found, the load raises an error to its caller, returns no record list
\* and leaves the store file as it was.
C16_LoadFailureRaised ==
    [][(last'.op = "list" /\ last'.result = "error") =>
          (last'.detail = "raised" /\ last'.ret = <<>> /\ db' = db)]_vars

\* what the filter folder_id is to let through
Passes(env, folder_id) ==
    IF folder_id = "" THEN TRUE
    ELSE IF folder_id = "all" THEN "deleted" \notin env.folderIds
    ELSE folder_id \in env.folderIds

\* C17: load_environments(folder_id) returns exactly the records carrying
\* an explicit folder id, every record not tagged 'deleted' for the sentinel
\* 'all', and every record of the store when no filter is given.
C17_FilterReturnsExactly ==
    ListReturned =>
       /\ \A k \in 1..Len(last.ret) : \E i \in 1..Len(db) : db[i] = last.ret[k]
       /\ \A i \in 1..Len(db) :
             Passes(db[i], last.folder) <=> \E k \in 1..Len(last.ret) : last.ret[k] = db[i]
       /\ Len(last.ret) = Cardinality({i \in 1..Len(db) : Passes(db[i], last.folder)})

\* 'all' left out a 'deleted' record and returned another
C17_Witness ==
    /\ ListReturned /\ last.folder = "all"
    /\ 0 < Len(last.ret) /\ Len(last.ret) < Len(db)

\* C18: a load never removes a record: the store keeps the same records in
\* the same order, only their status changes, and a record whose container
\* is missing stays with status 'dead'.
C18_LoadKeepsRecords ==
    [][last'.op = "list" =>
          /\ SameRecords(db', db)
          /\ last'.result = "success" =>
                \A i \in 1..Len(db) :
                   containers[db[i].id] = Absent => db'[i].status = "dead"]_vars

C18_Witness ==
    /\ ListReturned
    /\ \E i \in 1..Len(db) : containers[db[i].id] = Absent /\ db[i].status = "dead"

\* ---- mount resolver ------------------------------------------------------
\* the keys of a legacy spec that carry the action 'mount' or 'copy'
Recognized(mount_config) ==
    {mount_config.items[i].key : i \in {j \in 1..Len(mount_config.items) :
                                          mount_config.items[j].action \in {"mount", "copy"}}}

AppDir(key) == <<"/", "app", "ComfyUI", key>>
ContentDir(comfyui_path, key) ==
    (IF comfyui_path[1] = "/" THEN comfyui_path ELSE <<"/", "srv">> \o comfyui_path) \o <<key>>

AbsoluteForm(p) == IF p[1] = "/" THEN p ELSE Cwd \o p
HostDirOf(host_path, content_root) ==
    IF host_path[1] = "/" THEN host_path ELSE AbsoluteForm(content_root \o host_path)
Entries(mount_config, content_root) ==
    IF mount_config.style = "new"
    THEN {[container_path |-> mount_config.mounts[i].container_path,
           host_dir |-> HostDirOf(mount_config.mounts[i].host_path, content_root),
           action |-> mount_config.mounts[i].type] : i \in 1..Len(mount_config.mounts)}
    ELSE {[container_path |-> CONTAINER_COMFYUI_PATH \o <<mount_config.items[i].key>>,
           host_dir |-> HostDirOf(<<mount_config.items[i].key>>, content_root),
           action |-> mount_config.items[i].action] : i \in 1..Len(mount_config.items)}
Resolved == last.op = "create_mounts_from_new_config"
Provisioned == last.op = "copy_directories_to_container"
SeqRange(q) == {q[i] : i \in 1..Len(q)}

\* C21: a current-schema rule with action mount yields a bind mount from the
\* absolute form of content_root/host_path (an absolute host_path as given)
\* to the rule's container_path with the rule's read_only flag, and the host
\* directory exists after resolution
C21_RuleBecomesBindMount ==
    Resolved =>
        \A i \in 1..Len(last.ret.mount_config.mounts) :
            LET rule == last.ret.mount_config.mounts[i]
                source == HostDirOf(rule.host_path, last.ret.comfyui_path)
            IN rule.type = "mount" =>
                  /\ Mount(rule.container_path, source, "bind", rule.read_only)
                        \in SeqRange(last.ret.mounts)
                  /\ source \in fs
                  /\ IsAbsolute(rule.host_path) =>
                        \A j \in 1..Len(last.ret.mounts) :
                            last.ret.mounts[j].Target = rule.container_path =>
                               last.ret.mounts[j].Source # last.ret.comfyui_path \o rule.host_path

\* a relative rule whose directory was missing, resolved from a relative root
C21_Witness ==
    /\ Resolved
    /\ \E i \in 1..Len(last.ret.mount_config.mounts) :
          LET rule == last.ret.mount_config.mounts[i] IN
          /\ rule.type = "mount"
          /\ ~IsAbsolute(rule.host_path)
          /\ ~IsAbsolute(last.ret.comfyui_path)
          /\ rule.read_only
          /\ HostDirOf(rule.host_path, last.ret.comfyui_path) \notin last.ret.before
          /\ HostDirOf(rule.host_path, last.ret.comfyui_path) \in fs

\* C22: the pipeline returns true exactly when an entry for the extensions
\* directory was copied from an existing host directory or bind-mounted
C22_InstalledIffExtensionsProvisioned ==
    Provisioned =>
        (last.ret.installed <=>
            \E e \in Entries(last.ret.mount_config, last.ret.comfyui_path) :
                /\ e.container_path = ExtensionsDir
                /\ \/ e.action = "copy" /\ e.host_dir \in last.ret.before
                   \/ e.action = "mount")

\* C23: every copy entry, of either schema, whose host directory exists is
\* archived and transferred to its container path
C23_CopyEntriesTransferred ==
    Provisioned =>
        \A e \in Entries(last.ret.mount_config, last.ret.comfyui_path) :
            (e.action = "copy" /\ e.host_dir \in last.ret.before) =>
                e.container_path \in SeqRange(last.ret.copied)

\* C24: only entries with action mount yield a bind mount and have a missing
\* host directory created; a copy entry yields neither
C24_OnlyMountEntriesBound ==
    Resolved =>
        LET entries == Entries(last.ret.mount_config, last.ret.comfyui_path)
            bound == {e \in entries : e.action = "mount"}
        IN /\ \A j \in 1..Len(last.ret.mounts) :
                 last.ret.mounts[j].Target = WslPath
                 \/ \E e \in bound : /\ e.container_path = last.ret.mounts[j].Target
                                     /\ e.host_dir = last.ret.mounts[j].Source
           /\ fs \ last.ret.before \subseteq {e.host_dir : e \in bound}


\* C25: when the store file cannot be parsed, load_environments fails with
\* an error and the file is left as it was, not reset and not rewritten
C25_CorruptStoreSurfaced ==
    [][(db = CorruptFile /\ last'.op = "list" /\ steps' # steps) =>
          /\ last'.result = "error"
          /\ last'.detail = "decode_error"
          /\ db' = db]_vars

C25_Witness ==
    /\ db = CorruptFile
    /\ last.op = "list"
    /\ last.detail = "decode_error"

\* C29 as claimed: a hard delete that ends with an error leaves the
\* container, the image and the record as they were
C29_Original ==
    [][(last'.op = "hard_delete" /\ last'.result = "error" /\ steps' # steps) =>
          /\ containers' = containers
          /\ images' = images
          /\ db' = db]_vars

\* C29: a hard delete that ends with an error leaves the image and the
\* record as they were; the container may already be stopped or removed
C29_ErrorKeepsImageAndRecord ==
    [][(last'.op = "hard_delete" /\ last'.result = "error" /\ steps' # steps) =>
          /\ images' = images
          /\ db' = db
          /\ \A id \in Ids : id # last'.id => containers'[id] = containers[id]]_vars

\* the removal of a duplicate's image failed after its container was removed
C29_Witness ==
    /\ last.op = "hard_delete"
    /\ last.result = "error"
    /\ last.detail = "400 image"
    /\ last.pre_status = "running"
    /\ containers[last.id] = Absent
    /\ HasId(db, last.id)
    /\ images[last.name] # 0

\* C30: a hard delete that erases a record leaves no container of that
\* record in the engine, also when the engine answers with an API error
C30_ErasedRecordHasNoContainer ==
    [][\A id \in Ids :
          (/\ last'.op \in {"hard_delete", "app_delete"}
           /\ steps' # steps
           /\ HasId(db, id)
           /\ ~HasId(db', id)) => containers'[id] = Absent]_vars

\* C26: a load or save that cannot get the lock in time ends with a
\* reported error and has not written the file; every load and save that was
\* started ends
C26_LockTimeoutReported ==
    /\ [][\A t \in Tasks :
            (tasks[t].result # "500 lock timeout" /\ tasks'[t].result = "500 lock timeout") =>
               /\ tasks'[t].pc = "done"
               /\ ~tasks'[t].wrote
               /\ db' = db]_vars
    /\ \A t \in Tasks : (tasks[t].pc # "idle") ~> (tasks[t].pc = "done")

\* a load gave up while the other process held the lock
C26_Witness ==
    \E t \in Tasks :
       /\ tasks[t].op = "load"
       /\ tasks[t].pc = "done"
       /\ tasks[t].result = "500 lock timeout"
       /\ lock = ExternalHolder

\* C27: once the activate requests that were served together are all done,
\* at most one environment's container is running
C27_OneRunningAfterActivates ==
    (\A t \in Tasks : \/ tasks[t].pc = "idle"
                      \/ tasks[t].pc = "done" /\ tasks[t].result = "success") =>
        Cardinality({i \in Ids : containers[i] = "running"}) <= 1

\* C28: the write-back of a list request drops no record that is in the
\* file, so a record a create saved after the list request read the file stays
C28_LoadKeepsConcurrentCreate ==
    [][\A t \in Tasks :
          (tasks[t].op = "list" /\ tasks[t].pc = "load_write" /\ tasks'[t].pc = "done") =>
             \A i \in 1..Len(db) : HasId(db', db[i].id)]_vars

\* C31: a successful duplicate leaves every field of the source's record as
\* it was, the entries of its metadata included; the status is the one that
\* the engine reports
C31_DuplicateKeepsSource ==
    [][(last'.op = "duplicate" /\ last'.result = "success" /\ steps' # steps) =>
          FindEnv(db', last'.id) =
             [FindEnv(db, last'.id) EXCEPT !.status = ObservedStatus(containers, last'.id)]]_vars

\* C32: when an activation of a 'created' record failed after the container
\* was started, the successful activation of the same record that follows
\* runs the provisioning pipeline
C32_ProvisioningNeverSkipped ==
    [][(/\ last.op = "activate" /\ last.result = "error"
        /\ last.pre_status = "created" /\ last.started
        /\ last'.op = "activate" /\ last'.id = last.id
        /\ last'.result = "success" /\ steps' # steps) =>
          last'.provisioned]_vars

\* C33: while the duplicate requests served together are on different
\* sources, the container of each is created from the image that its own
\* commit produced
C33_CreatedFromOwnCommit ==
    (\A t, u \in Tasks :
        (t # u /\ tasks[t].op = "duplicate" /\ tasks[u].op = "duplicate") =>
           tasks[t].arg # tasks[u].arg) =>
       \A t \in Tasks :
          (tasks[t].op = "duplicate" /\ tasks[t].image # 0) =>
             tasks[t].image = tasks[t].new_image

\* C34: of the activate requests served together on one record, at most one
\* runs the provisioning pipeline and at most one restarts the container
C34_ProvisionedAtMostOnce ==
    \A id \in Ids :
       LET on == {t \in Tasks : tasks[t].op = "activate" /\ tasks[t].arg = id}
       IN /\ Cardinality({t \in on : tasks[t].provisioned}) <= 1
          /\ Cardinality({t \in on : tasks[t].restarts > 0}) <= 1

\* the create request has reported success and the file lacks its record
CreateLost(t) ==
    /\ tasks[t].op = "create" /\ tasks[t].pc = "done" /\ tasks[t].result = "success"
    /\ ~NameExists(db, "env-c")

\* C35: a create that reported success is missing from the file only when
\* another request wrote a list it had read before the create saved; the
\* lock is free between the load and the save of a request, and the
\* interleaving in which create and activate both report success and the
\* file lacks the created record is reached
C35_LostUpdateByStaleSave ==
    \A t \in Tasks :
       CreateLost(t) =>
          \E u \in Tasks \ {t} : tasks[u].wrote /\ ~NameExists(tasks[u].envs, "env-c")

C35_Witness ==
    \E t, u \in Tasks :
       /\ CreateLost(t)
       /\ tasks[u].op = "activate" /\ tasks[u].pc = "done" /\ tasks[u].result = "success"
       /\ lock = 0

\* the positions from which the next step reads or writes the file
FilePcs == {"load_read", "load_write", "save_write",
            "app_load_read", "app_save_open", "app_save_dump"}
\* the positions inside the section that reads or writes the file
InsidePcs == {"load_read", "load_write", "save_write", "app_save_dump"}
\* the positions from which the next step calls the engine
EnginePcs == {"load_engine", "app_load_engine", "create", "activate",
              "duplicate", "duplicate_commit", "duplicate_remove", "duplicate_create"}
Moves(t) == tasks'[t].pc # tasks[t].pc

\* C36: every read and every write of the file is made by the holder of the
\* lock, no two requests are inside the read/write section at once, and no
\* engine call is made by the holder of the lock
C36_FileOnlyUnderLock ==
    [][/\ \A t \in Tasks :
            /\ (tasks[t].pc \in FilePcs /\ Moves(t)) => lock = t
            /\ (tasks[t].pc \in EnginePcs /\ Moves(t)) => lock # t
       /\ Cardinality({t \in Tasks : tasks'[t].pc \in InsidePcs}) <= 1]_vars

\* C37: a transfer or an install that fails for one entry costs the pipeline
\* at most that entry's transfer: every other directory is still sent and
\* every install is still attempted, as in the run without the failure; and a
\* restart that fails ends the call with an error
C37_FailureKeepsOtherEntries ==
    last.op = "provision" =>
       LET ok == copy_directories_to_container(last.id, ComfyuiPath, last.ret.mount_config,
                                               last.ret.before, NoFault)
           lost == IF last.ret.fault.op = "put_archive" THEN 1 ELSE 0
       IN /\ Len(last.ret.copied) >= Len(ok.copied) - lost
          /\ last.ret.installs = ok.installs
          /\ (ok.installed /\ last.ret.fault.op = "restart") => last.result = "error"

\* the lines of a manifest: the text between its line ends
ManifestLines(text) ==
    IF text = <<>> THEN <<>>
    ELSE IF text[Len(text)] = "\n" THEN split(SubSeq(text, 1, Len(text) - 1))
    ELSE split(text)

\* the manifest's lines without those whose leading run of name characters
\* is a blacklisted name
KeptLines(text, blacklist) ==
    SelectSeq(ManifestLines(text), LAMBDA line : NameRun(line) \notin blacklist)

\* C38: what install_custom_nodes installs is the manifest's lines, in order
\* and unchanged, without the lines whose leading token is a blacklisted
\* name; a longer name that starts with a blacklisted one stays; no install
\* is run when no line is left
C38_FilteredManifest ==
    last.op = "install_custom_nodes" =>
       LET kept == KeptLines(last.ret.manifest, last.ret.blacklist)
           r == last.ret.installed
       IN /\ r.ran <=> kept # <<>>
          /\ r.ran => (r.filtered = kept /\ r.verbatim)

\* path is an excluded directory or lies below one
AtOrBelowExcluded(path) ==
    \E i \in 1..Len(path) :
       /\ path[i] \in EXCLUDE_CUSTOM_NODE_DIRS
       /\ i < Len(path) \/ is_dir(path)

\* C39: the archive holds every file of the host directory under its
\* relative path, and nothing that is at or below a directory named
\* __pycache__ or ComfyUI-Manager
C39_ArchiveExcludesSubtrees ==
    last.op = "copy_to_container" =>
       \A path \in last.ret.tree :
          /\ (~is_dir(path) /\ ~AtOrBelowExcluded(path)) => path \in last.ret.archive
          /\ AtOrBelowExcluded(path) => path \notin last.ret.archive

====
